---- MODULE Spec2Model ----
(***************************************************************************)
(* A model of lox.py: the resolver, the environment chain and the          *)
(* tree-walking evaluator, run over a bounded family of programs given as  *)
(* the trees the parser builds for them.                                   *)
(*                                                                         *)
(* A Python exception is modelled as the field exc of the threaded record  *)
(* ("ok" when none is in flight); every operator passes a record whose exc *)
(* is not "ok" through unchanged, as the raise unwinds the Python stack.   *)
(***************************************************************************)
EXTENDS Integers, Sequences, FiniteSets, TLC

\* ------------------------------------------------------------------ bounds
\* The deepest stack of blocks a program of the family is wrapped in.
MaxNest == 3
\* Loop iterations plus calls one interpret may perform before the model stops it.
MaxFuel == 100
\* The argument of the recursive function of the family (fib).
FibArg == 5
\* The wall-clock values clock() may return.
MaxClock == 1

\* ------------------------------------------------------------------ values
\* Python values: None, bool, int, str, Interpreter.Callable, Interpreter.Function.
NilValue == [t |-> "nil", v |-> 0]
BoolValue(b) == [t |-> "bool", v |-> b]
NumValue(n) == [t |-> "num", v |-> n]
StrValue(s) == [t |-> "str", v |-> s]

\* Python equality of two values of the model (compared tag first).
ValEq(a, b) == a.t = b.t /\ a.v = b.v

\* The truth value by the rule "nil and false are falsey, every other value is
\* truthy".
is_truthy(val) == ~(val.t = "nil" \/ (val.t = "bool" /\ ~val.v))

\* Python's truth value of an object, as `if x`, `while x`, `not x`, `x and y` use it:
\* None, False, 0 and "" are false, every other object (callables included) is true.
Truthy(val) ==
    CASE val.t = "nil" -> FALSE
      [] val.t = "bool" -> val.v
      [] val.t = "num" -> val.v # 0
      [] val.t = "str" -> val.v # ""
      [] OTHER -> TRUE

\* isinstance(x, (float, int)): bool is a subclass of int.
IsNumber(val) == val.t \in {"num", "bool"}

\* The int a number or a bool stands for in arithmetic.
AsInt(val) == IF val.t = "bool" THEN (IF val.v THEN 1 ELSE 0) ELSE val.v

\* isinstance(x, Interpreter.Callable)
IsCallable(val) == val.t \in {"builtin", "function"}

\* ------------------------------------------------------------------ tokens and trees
\* Token: only the lexeme and the column (the offset of the token in the source,
\* unique per token) matter to the resolver and the evaluator.
Token(lexeme, column) == [lexeme |-> lexeme, column |-> column]

None == [type |-> "None"]

Literal(value) == [type |-> "Literal", value |-> value]
Grouping(expression) == [type |-> "Grouping", expression |-> expression]
Unary(operator, right) == [type |-> "Unary", operator |-> operator, right |-> right]
Binary(left, operator, right) ==
    [type |-> "Binary", left |-> left, operator |-> operator, right |-> right]
Logical(left, operator, right) ==
    [type |-> "Logical", left |-> left, operator |-> operator, right |-> right]
Conditional(expression, left, right) ==
    [type |-> "Conditional", expression |-> expression, left |-> left, right |-> right]
Variable(name) == [type |-> "Variable", name |-> name]
Assign(name, value) == [type |-> "Assign", name |-> name, value |-> value]
Call(callee, arguments) == [type |-> "Call", callee |-> callee, arguments |-> arguments]

Expression(expression) == [type |-> "Expression", expression |-> expression]
ForExpression(expression) == [type |-> "ForExpression", expression |-> expression]
PrintStmt(expression) == [type |-> "Print", expression |-> expression]
Var(name, initializer) == [type |-> "Var", name |-> name, initializer |-> initializer]
Block(statements) == [type |-> "Block", statements |-> statements]
If(condition, then_branch, else_branch) ==
    [type |-> "If", condition |-> condition, then_branch |-> then_branch,
     else_branch |-> else_branch]
While(condition, body) == [type |-> "While", condition |-> condition, body |-> body]
Function(name, params, body) ==
    [type |-> "Function", name |-> name, params |-> params, body |-> body]
Return(value) == [type |-> "Return", value |-> value]
Break == [type |-> "Break"]
Continue == [type |-> "Continue"]

\* Expr.__eq__ / Expr.__hash__: the side table is keyed by the node's class and
\* fields; for Variable and Assign the name token, whose column no other token has,
\* tells one occurrence from every other.
NodeKey(expr) == <<expr.type, expr.name.lexeme, expr.name.column>>

\* Parser.for_statement: the tree a for statement is turned into.
for_statement(initializer, condition, increment, body) ==
    LET b1 == IF increment.type # "None"
              THEN Block(<<body, ForExpression(increment)>>) ELSE body
        c1 == IF condition.type = "None" THEN Literal(BoolValue(TRUE)) ELSE condition
        w == While(c1, b1)
    IN IF initializer.type # "None" THEN Block(<<initializer, w>>) ELSE w

\* ------------------------------------------------------------------ Parser
\* A token as the scanner hands it to the parser; of it a tree keeps the lexeme and
\* the column (Token above) of a name and the type of an operator.
ScannedToken(type, lexeme, literal, column) ==
    [type |-> type, lexeme |-> lexeme, literal |-> literal, column |-> column]

NameOf(token) == Token(token.lexeme, token.column)

\* Parser.__init__.  current counts from 1; exc, msg and at are the ParserError (or
\* AttributeError) in flight and the token it names; v is what the method that ran
\* last returned (a tree, a list of trees, a token; None for Python's None);
\* printed is what declaration printed, with the position it was caught at, and
\* discarded the operands an error production parsed and dropped.
Parser_init(tokens) ==
    [tokens |-> tokens, current |-> 1, has_error |-> FALSE,
     loop_depth |-> 0, call_depth |-> 0,
     exc |-> "ok", msg |-> "", at |-> None, v |-> None,
     printed |-> <<>>, discarded |-> <<>>]

\* Parser.peek, Parser.previous, Parser.is_at_end
Parser_peek(p) == p.tokens[p.current]
Parser_previous(p) == p.tokens[p.current - 1]
Parser_is_at_end(p) == Parser_peek(p).type = "EOF"

\* Parser.error: always raises.
Parser_error(p, token, msg) ==
    [p EXCEPT !.has_error = TRUE, !.exc = "ParserError", !.msg = msg, !.at = token]

\* Parser.advance
Parser_advance(p) == IF Parser_is_at_end(p) THEN p ELSE [p EXCEPT !.current = @ + 1]

\* Parser.check
Parser_check(p, token_type) == ~Parser_is_at_end(p) /\ Parser_peek(p).type = token_type

\* Parser.match, the test: where it holds the caller goes on from Parser_advance(p),
\* with Parser_peek(p) as `self.previous`.
Parser_match(p, types) == \E t \in types : Parser_check(p, t)

\* Parser.consume; the token is returned in v.
Parser_consume(p, token_type, msg) ==
    IF p.exc # "ok" THEN p
    ELSE IF Parser_check(p, token_type) THEN [Parser_advance(p) EXCEPT !.v = Parser_peek(p)]
    ELSE Parser_error(p, Parser_peek(p), msg)

\* `expr.name` of Parser.term and Parser.factor: Variable and Assign have the
\* attribute.
HasName(expr) == expr.type \in {"Variable", "Assign"}

MaxArguments == 255

MaxParameters == 255

RECURSIVE Parser_rule(_, _)
RECURSIVE Parser_assignment(_)
RECURSIVE Parser_conditional(_)
RECURSIVE Parser_logic_or(_)
RECURSIVE Parser_logic_and(_)
RECURSIVE Parser_equality(_)
RECURSIVE Parser_comparison(_)
RECURSIVE Parser_term(_)
RECURSIVE Parser_factor(_)
RECURSIVE Parser_unary(_)
RECURSIVE Parser_call(_)
RECURSIVE Parser_primary(_)
RECURSIVE Parser_loop(_, _, _)
RECURSIVE Parser_while_match(_, _)

\* The same with the types of term and of factor exchanged.
LoopTypes_exchanged(loop) ==
    CASE loop = "logic_or" -> {"OR"}
      [] loop = "logic_and" -> {"AND"}
      [] loop = "equality" -> {"BANG_EQUAL", "EQUAL_EQUAL"}
      [] loop = "comparison" -> {"GREATER", "GREATER_EQUAL", "LESS", "LESS_EQUAL"}
      [] loop = "term_step" -> {"MINUS_MINUS", "PLUS_PLUS"}
      [] loop = "term_compound" -> {"MINUS_EQUAL", "PLUS_EQUAL"}
      [] loop = "term" -> {"SLASH", "STAR"}
      [] loop = "factor_compound" -> {"SLASH_EQUAL", "STAR_EQUAL"}
      [] loop = "factor" -> {"MINUS", "PLUS"}
      [] OTHER -> {"LEFT_PAREN"}

\* The token types of each `while self.match(...)` of the expression grammar.
LoopTypes(loop) ==
    CASE loop = "logic_or" -> {"OR"}
      [] loop = "logic_and" -> {"AND"}
      [] loop = "equality" -> {"BANG_EQUAL", "EQUAL_EQUAL"}
      [] loop = "comparison" -> {"GREATER", "GREATER_EQUAL", "LESS", "LESS_EQUAL"}
      [] loop = "term_step" -> {"MINUS_MINUS", "PLUS_PLUS"}
      [] loop = "term_compound" -> {"MINUS_EQUAL", "PLUS_EQUAL"}
      [] loop = "term" -> {"MINUS", "PLUS"}
      [] loop = "factor_compound" -> {"SLASH_EQUAL", "STAR_EQUAL"}
      [] loop = "factor" -> {"SLASH", "STAR"}
      [] OTHER -> {"LEFT_PAREN"}

\* One `while self.match(...): operator = self.previous; right = ...; expr = ...`
\* of logic_or, logic_and, equality, comparison, term (three loops), factor (two)
\* and call; p.v is expr.
Parser_while_match(p, loop) ==
    IF p.exc # "ok" \/ ~Parser_match(p, LoopTypes(loop)) THEN p
    ELSE LET operator == Parser_peek(p)
             a == Parser_advance(p)
             assigns == loop \in {"term_step", "term_compound", "factor_compound"}
             right == CASE loop = "logic_or" -> Parser_rule(a, "logic_and")
                        [] loop = "logic_and" -> Parser_rule(a, "equality")
                        [] loop = "equality" -> Parser_rule(a, "comparison")
                        [] loop = "comparison" -> Parser_rule(a, "term")
                        [] loop = "term_step" -> [a EXCEPT !.v = Literal(NumValue(1))]
                        [] loop \in {"term_compound", "term"} -> Parser_rule(a, "factor")
                        [] loop \in {"factor_compound", "factor"} -> Parser_rule(a, "unary")
                        [] OTHER -> Parser_rule(a, "finish_call")
             expr == CASE loop \in {"logic_or", "logic_and"} ->
                             Logical(p.v, operator.type, right.v)
                       [] assigns -> Assign(p.v.name, Binary(p.v, operator.type, right.v))
                       [] loop = "call" -> right.v
                       [] OTHER -> Binary(p.v, operator.type, right.v)
         IN IF right.exc # "ok" THEN right
            ELSE IF assigns /\ ~HasName(p.v)
            THEN [right EXCEPT !.exc = "AttributeError",
                               !.msg = "object has no attribute 'name'"]
            ELSE Parser_while_match([right EXCEPT !.v = expr], loop)

\* Parser.primary.  The four error productions call Parser.error first, which
\* raises, so the sub-parser behind it runs on a raised exception, that is, not
\* at all.
Parser_primary(p) ==
    LET token == Parser_peek(p)
        a == Parser_advance(p)
        missing == Parser_error(a, Parser_peek(a), "Missing left-hand operand.")
        dropped(r) ==
            IF r.exc # "ok" THEN r
            ELSE [r EXCEPT !.v = None,
                           !.discarded = Append(@, [operator |-> token,
                                                    from |-> a.current,
                                                    to |-> r.current])]
    IN IF p.exc # "ok" THEN p
       ELSE CASE Parser_match(p, {"FALSE"}) -> [a EXCEPT !.v = Literal(BoolValue(FALSE))]
              [] Parser_match(p, {"TRUE"}) -> [a EXCEPT !.v = Literal(BoolValue(TRUE))]
              [] Parser_match(p, {"NIL"}) -> [a EXCEPT !.v = Literal(NilValue)]
              [] Parser_match(p, {"NUMBER", "STRING"}) ->
                     [a EXCEPT !.v = Literal(token.literal)]
              [] Parser_match(p, {"LEFT_PAREN"}) ->
                     LET e == Parser_rule(a, "expression")
                         c == Parser_consume(e, "RIGHT_PAREN", "Expect ')' after expression.")
                     IN IF c.exc # "ok" THEN c ELSE [c EXCEPT !.v = Grouping(e.v)]
              [] Parser_match(p, {"IDENTIFIER"}) -> [a EXCEPT !.v = Variable(NameOf(token))]
              [] Parser_match(p, {"BANG_EQUAL", "EQUAL_EQUAL"}) ->
                     dropped(Parser_rule(missing, "equality"))
              [] Parser_match(p, {"GREATER", "GREATER_EQUAL", "LESS", "LESS_EQUAL"}) ->
                     dropped(Parser_rule(missing, "comparison"))
              [] Parser_match(p, {"PLUS"}) -> dropped(Parser_rule(missing, "term"))
              [] Parser_match(p, {"SLASH", "STAR"}) -> dropped(Parser_rule(missing, "factor"))
              [] OTHER -> Parser_error(p, Parser_peek(p), "Expression expected")

\* `while self.match(TokenType.COMMA): arguments.append(self.expression())`, one
\* turn; p.v is the list so far.
Parser_argument(p) ==
    IF p.exc # "ok" \/ ~Parser_match(p, {"COMMA"}) THEN p
    ELSE LET r == Parser_rule(Parser_advance(p), "expression")
         IN IF r.exc # "ok" THEN r
            ELSE [r EXCEPT !.v = Append(p.v, r.v)]

\* Parser.function, `while self.match(TokenType.COMMA)`, one turn: the parameter is
\* appended, then the length of the list is compared; p.v is the list so far.
Parser_parameter(p) ==
    IF p.exc # "ok" \/ ~Parser_match(p, {"COMMA"}) THEN p
    ELSE LET name == Parser_consume(Parser_advance(p), "IDENTIFIER",
                                    "Expect parameter name.")
             parameters == Append(p.v, NameOf(name.v))
         IN IF name.exc # "ok" THEN name
            ELSE IF Len(parameters) >= MaxParameters
            THEN Parser_error(name, Parser_peek(name),
                              "Can't have more than 255 parameters.")
            ELSE [name EXCEPT !.v = parameters]

\* The two while loops over a list: up to n turns, which are as many as the loop
\* makes when n is the number of tokens, since every turn consumes one.  The turns
\* are made half by half, which keeps the evaluation of a list of 255 elements
\* shallow.
Parser_loop(p, loop, n) ==
    IF p.exc # "ok" \/ ~Parser_match(p, {"COMMA"}) THEN p
    ELSE IF n <= 1
    THEN IF loop = "parameters" THEN Parser_parameter(p) ELSE Parser_argument(p)
    ELSE LET half == Parser_loop(p, loop, n \div 2)
         IN IF half.exc # "ok" THEN half
            ELSE Parser_loop(half, loop, n - (n \div 2))

Parser_arguments(p) == Parser_loop(p, "arguments", Len(p.tokens))

Parser_finish_call(p, callee) ==
    LET first == Parser_rule(p, "expression")
        arguments == IF Parser_check(p, "RIGHT_PAREN") THEN [p EXCEPT !.v = <<>>]
                     ELSE IF first.exc # "ok" THEN first
                     ELSE Parser_arguments([first EXCEPT !.v = <<first.v>>])
        paren == Parser_consume(arguments, "RIGHT_PAREN", "Expect ')' after arguments.")
    IN IF p.exc # "ok" THEN p
       ELSE IF arguments.exc # "ok" THEN arguments
       ELSE IF Len(arguments.v) > MaxArguments
       THEN Parser_error(arguments, Parser_peek(arguments), "Can't have more than 255 arguments.")
       ELSE IF paren.exc # "ok" THEN paren
       ELSE [paren EXCEPT !.v = Call(callee, arguments.v)]

\* Parser.call
Parser_call(p) == Parser_while_match(Parser_primary(p), "call")

\* Parser.unary
Parser_unary(p) ==
    IF p.exc # "ok" THEN p
    ELSE IF Parser_match(p, {"BANG", "MINUS"})
    THEN LET right == Parser_unary(Parser_advance(p))
         IN IF right.exc # "ok" THEN right
            ELSE [right EXCEPT !.v = Unary(Parser_peek(p).type, right.v)]
    ELSE Parser_call(p)

\* Parser.factor
Parser_factor(p) ==
    Parser_while_match(Parser_while_match(Parser_unary(p), "factor_compound"), "factor")

\* Parser.term
Parser_term(p) ==
    Parser_while_match(
        Parser_while_match(Parser_while_match(Parser_factor(p), "term_step"),
                           "term_compound"),
        "term")

\* Parser.comparison
Parser_comparison(p) == Parser_while_match(Parser_term(p), "comparison")

\* Parser.equality
Parser_equality(p) == Parser_while_match(Parser_comparison(p), "equality")

\* Parser.logic_and
Parser_logic_and(p) == Parser_while_match(Parser_equality(p), "logic_and")

\* Parser.logic_or
Parser_logic_or(p) == Parser_while_match(Parser_logic_and(p), "logic_or")

\* Parser.conditional
Parser_conditional(p) ==
    LET condition == Parser_rule(p, "logic_or")
        then_branch == Parser_rule(Parser_advance(condition), "expression")
        colon == Parser_consume(then_branch, "COLON",
                                "Expect ':' after then branch of conditional expression.")
        else_branch == Parser_conditional(colon)
    IN IF condition.exc # "ok" \/ ~Parser_match(condition, {"QUESTION"}) THEN condition
       ELSE IF else_branch.exc # "ok" THEN else_branch
       ELSE [else_branch EXCEPT
                !.v = Conditional(condition.v, then_branch.v, else_branch.v)]

\* Parser.assignment
Parser_assignment(p) == Parser_conditional(p)

\* Parser.expression
Parser_expression(p) ==
    LET expr == Parser_rule(p, "assignment")
        equals == Parser_peek(expr)
        value == Parser_rule(Parser_advance(expr), "assignment")
    IN IF expr.exc # "ok" \/ ~Parser_match(expr, {"EQUAL"}) THEN expr
       ELSE IF value.exc # "ok" THEN value
       ELSE IF expr.v.type = "Variable"
       THEN [value EXCEPT !.v = Assign(expr.v.name, value.v)]
       ELSE Parser_error(value, equals, "Invalid assignment target.")

RECURSIVE Parser_block_loop(_)
RECURSIVE Parser_synchronize_loop(_)

\* Parser.expression_statement
Parser_expression_statement(p) ==
    LET expr == Parser_rule(p, "expression")
        semi == Parser_consume(expr, "SEMICOLON", "Expect ';' after expression.")
    IN IF semi.exc # "ok" THEN semi ELSE [semi EXCEPT !.v = Expression(expr.v)]

\* Parser.print_statement
Parser_print_statement(p) ==
    LET value == Parser_rule(p, "expression")
        semi == Parser_consume(value, "SEMICOLON", "Expect ';' after value.")
    IN IF semi.exc # "ok" THEN semi ELSE [semi EXCEPT !.v = PrintStmt(value.v)]

\* Parser.var_declaration
Parser_var_declaration(p) ==
    LET name == Parser_consume(p, "IDENTIFIER", "Expect variable name.")
        initializer == IF name.exc # "ok" THEN name
                       ELSE IF Parser_match(name, {"EQUAL"})
                       THEN Parser_rule(Parser_advance(name), "expression")
                       ELSE [name EXCEPT !.v = None]
        semi == Parser_consume(initializer, "SEMICOLON",
                               "Expect ';' after variable declaration.")
    IN IF semi.exc # "ok" THEN semi
       ELSE [semi EXCEPT !.v = Var(NameOf(name.v), initializer.v)]

\* A return accepted at any call depth.
Parser_return_allowed_anywhere(p) == FALSE

\* `if not self.call_depth` of Parser.return_statement
Parser_return_outside_callable(p) == p.call_depth = 0

\* Parser.return_statement
Parser_return_statement(p) ==
    LET value == IF ~Parser_check(p, "SEMICOLON") THEN Parser_rule(p, "expression")
                 ELSE [p EXCEPT !.v = None]
        semi == Parser_consume(value, "SEMICOLON", "Expect ';' after return value.")
    IN IF p.exc # "ok" THEN p
       ELSE IF Parser_return_outside_callable(p)
       THEN Parser_error(p, Parser_previous(p), "Must be inside a callable to use 'return'.")
       ELSE IF semi.exc # "ok" THEN semi
       ELSE [semi EXCEPT !.v = Return(value.v)]

\* Parser.break_statement
Parser_break_statement(p) ==
    LET semi == Parser_consume(p, "SEMICOLON", "Expect ';' after break statement.")
    IN IF p.exc # "ok" THEN p
       ELSE IF p.loop_depth = 0
       THEN Parser_error(p, Parser_previous(p), "Must be inside a loop to use 'break'.")
       ELSE IF semi.exc # "ok" THEN semi
       ELSE [semi EXCEPT !.v = Break]

\* Parser.continue_statement
Parser_continue_statement(p) ==
    LET semi == Parser_consume(p, "SEMICOLON", "Expect ';' after continue statement.")
    IN IF p.exc # "ok" THEN p
       ELSE IF p.loop_depth = 0
       THEN Parser_error(p, Parser_previous(p), "Must be inside a loop to use 'continue'.")
       ELSE IF semi.exc # "ok" THEN semi
       ELSE [semi EXCEPT !.v = Continue]

\* `while not self.check(RIGHT_BRACE) and not self.is_at_end:
\*      statements.append(self.declaration())`; p.v is the list so far, to which
\* the None of an abandoned declaration is appended like a statement.
Parser_block_loop(p) ==
    IF p.exc # "ok" \/ Parser_check(p, "RIGHT_BRACE") \/ Parser_is_at_end(p) THEN p
    ELSE LET d == Parser_rule(p, "declaration")
         IN IF d.exc # "ok" THEN d
            ELSE Parser_block_loop([d EXCEPT !.v = Append(p.v, d.v)])

\* Parser.block
Parser_block(p) ==
    LET body == Parser_block_loop([p EXCEPT !.v = <<>>])
        brace == Parser_consume(body, "RIGHT_BRACE", "Expect '}' after block.")
    IN IF p.exc # "ok" THEN p
       ELSE IF brace.exc # "ok" THEN brace
       ELSE [brace EXCEPT !.v = body.v]

\* Parser.if_statement
Parser_if_statement(p) ==
    LET paren == Parser_consume(p, "LEFT_PAREN", "Expect '(' after 'if'.")
        condition == Parser_rule(paren, "expression")
        close == Parser_consume(condition, "RIGHT_PAREN", "Expect ')' after if condition.")
        then_branch == Parser_rule(close, "statement")
        else_branch == IF then_branch.exc # "ok" THEN then_branch
                       ELSE IF Parser_match(then_branch, {"ELSE"})
                       THEN Parser_rule(Parser_advance(then_branch), "statement")
                       ELSE [then_branch EXCEPT !.v = None]
    IN IF else_branch.exc # "ok" THEN else_branch
       ELSE [else_branch EXCEPT !.v = If(condition.v, then_branch.v, else_branch.v)]

\* Parser.while_statement; the finally clause takes loop_depth back on every way
\* out of the body.
Parser_while_statement(p) ==
    LET paren == Parser_consume(p, "LEFT_PAREN", "Expect '(' after 'while'.")
        condition == Parser_rule(paren, "expression")
        close == Parser_consume(condition, "RIGHT_PAREN", "Expect ')' after condition.")
        body == Parser_rule([close EXCEPT !.loop_depth = @ + 1], "statement")
    IN IF close.exc # "ok" THEN close
       ELSE IF body.exc # "ok" THEN [body EXCEPT !.loop_depth = @ - 1]
       ELSE [body EXCEPT !.loop_depth = @ - 1, !.v = While(condition.v, body.v)]

\* Parser.for_statement
Parser_for_statement(p) ==
    LET paren == Parser_consume(p, "LEFT_PAREN", "Expect '(' after 'for'.")
        initializer == IF paren.exc # "ok" THEN paren
                       ELSE IF Parser_match(paren, {"SEMICOLON"})
                       THEN [Parser_advance(paren) EXCEPT !.v = None]
                       ELSE IF Parser_match(paren, {"VAR"})
                       THEN Parser_rule(Parser_advance(paren), "var_declaration")
                       ELSE Parser_rule(paren, "expression_statement")
        condition == IF initializer.exc # "ok" THEN initializer
                     ELSE IF ~Parser_check(initializer, "SEMICOLON")
                     THEN Parser_rule(initializer, "expression")
                     ELSE [initializer EXCEPT !.v = None]
        semi == Parser_consume(condition, "SEMICOLON", "Expect ';' after loop condition.")
        increment == IF semi.exc # "ok" THEN semi
                     ELSE IF ~Parser_check(semi, "RIGHT_PAREN") THEN Parser_rule(semi, "expression")
                     ELSE [semi EXCEPT !.v = None]
        close == Parser_consume(increment, "RIGHT_PAREN", "Expect ')' after for clauses.")
        body == Parser_rule([close EXCEPT !.loop_depth = @ + 1], "statement")
    IN IF close.exc # "ok" THEN close
       ELSE IF body.exc # "ok" THEN [body EXCEPT !.loop_depth = @ - 1]
       ELSE [body EXCEPT !.loop_depth = @ - 1,
                         !.v = for_statement(initializer.v, condition.v, increment.v,
                                             body.v)]

\* Parser.statement
Parser_statement(p) ==
    LET a == Parser_advance(p)
        block == Parser_rule(a, "block")
    IN IF p.exc # "ok" THEN p
       ELSE CASE Parser_match(p, {"FOR"}) -> Parser_rule(a, "for_statement")
              [] Parser_match(p, {"IF"}) -> Parser_rule(a, "if_statement")
              [] Parser_match(p, {"PRINT"}) -> Parser_rule(a, "print_statement")
              [] Parser_match(p, {"RETURN"}) -> Parser_rule(a, "return_statement")
              [] Parser_match(p, {"WHILE"}) -> Parser_rule(a, "while_statement")
              [] Parser_match(p, {"BREAK"}) -> Parser_rule(a, "break_statement")
              [] Parser_match(p, {"CONTINUE"}) -> Parser_rule(a, "continue_statement")
              [] Parser_match(p, {"LEFT_BRACE"}) ->
                     IF block.exc # "ok" THEN block ELSE [block EXCEPT !.v = Block(block.v)]
              [] OTHER -> Parser_rule(p, "expression_statement")

\* `while self.match(TokenType.COMMA): parameters.append(self.consume(...))` of
\* Parser.function, with its test of the length; p.v is the list so far.
Parser_parameters(p) == Parser_loop(p, "parameters", Len(p.tokens))

Parser_function(p) ==
    LET name == Parser_consume(p, "IDENTIFIER", "Expec function name")
        paren == Parser_consume(name, "LEFT_PAREN", "Expect '(' after function name.")
        first == Parser_consume(paren, "IDENTIFIER", "Expect parameter name.")
        parameters == IF paren.exc # "ok" THEN paren
                      ELSE IF Parser_check(paren, "RIGHT_PAREN") THEN [paren EXCEPT !.v = <<>>]
                      ELSE IF first.exc # "ok" THEN first
                      ELSE Parser_parameters([first EXCEPT !.v = <<NameOf(first.v)>>])
        close == Parser_consume(parameters, "RIGHT_PAREN", "Expect ')' after parameters.")
        brace == Parser_consume(close, "LEFT_BRACE", "Expect '{' before function body.")
        body == Parser_rule([brace EXCEPT !.call_depth = @ + 1], "block")
    IN IF brace.exc # "ok" THEN brace
       ELSE IF body.exc # "ok" THEN body
       ELSE [body EXCEPT !.call_depth = @ - 1,
                         !.v = Function(NameOf(name.v), parameters.v, body.v)]

SYNCHRONIZE_TOKEN_TYPES == {"CLASS", "FUN", "VAR", "FOR", "IF", "WHILE", "PRINT", "RETURN"}

\* The loop of Parser.synchronize
Parser_synchronize_loop(p) ==
    IF Parser_is_at_end(p) THEN p
    ELSE IF Parser_previous(p).type = "SEMICOLON" THEN p
    ELSE IF Parser_peek(p).type \in SYNCHRONIZE_TOKEN_TYPES THEN p
    ELSE Parser_synchronize_loop(Parser_advance(p))

\* Parser.synchronize: one advance whatever the token, then the loop.
Parser_synchronize(p) == Parser_synchronize_loop(Parser_advance(p))

\* Parser.declaration: a ParserError is printed, the parser synchronized and None
\* returned; any other exception passes through.
Parser_declaration(p) ==
    LET r == IF Parser_match(p, {"FUN"}) THEN Parser_rule(Parser_advance(p), "function")
             ELSE IF Parser_match(p, {"VAR"}) THEN Parser_rule(Parser_advance(p), "var_declaration")
             ELSE Parser_rule(p, "statement")
        caught == [r EXCEPT !.exc = "ok", !.msg = "", !.at = None,
                            !.printed = Append(@, [msg |-> r.msg, token |-> r.at,
                                                   current |-> r.current])]
    IN IF p.exc # "ok" THEN p
       ELSE IF r.exc = "ParserError" THEN [Parser_synchronize(caught) EXCEPT !.v = None]
       ELSE r

\* self.<rule>(): the statement methods of the grammar, expression, and the
\* methods that parse a right operand, called by name.
Parser_rule(p, rule) ==
    CASE rule = "expression" -> Parser_expression(p)
      [] rule = "assignment" -> Parser_assignment(p)
      [] rule = "logic_or" -> Parser_logic_or(p)
      [] rule = "finish_call" -> Parser_finish_call(p, p.v)
      [] rule = "logic_and" -> Parser_logic_and(p)
      [] rule = "equality" -> Parser_equality(p)
      [] rule = "comparison" -> Parser_comparison(p)
      [] rule = "term" -> Parser_term(p)
      [] rule = "factor" -> Parser_factor(p)
      [] rule = "unary" -> Parser_unary(p)
      [] rule = "expression_statement" -> Parser_expression_statement(p)
      [] rule = "print_statement" -> Parser_print_statement(p)
      [] rule = "var_declaration" -> Parser_var_declaration(p)
      [] rule = "return_statement" -> Parser_return_statement(p)
      [] rule = "break_statement" -> Parser_break_statement(p)
      [] rule = "continue_statement" -> Parser_continue_statement(p)
      [] rule = "block" -> Parser_block(p)
      [] rule = "if_statement" -> Parser_if_statement(p)
      [] rule = "while_statement" -> Parser_while_statement(p)
      [] rule = "for_statement" -> Parser_for_statement(p)
      [] rule = "statement" -> Parser_statement(p)
      [] rule = "function" -> Parser_function(p)
      [] rule = "declaration" -> Parser_declaration(p)

\* ------------------------------------------------------------------ Environment
EmptyMap == [n \in {} |-> NilValue]

\* Environment.__init__
NewEnvironment(enclosing) == [values |-> EmptyMap, enclosing |-> enclosing]

MapPut(map, name, value) ==
    [n \in DOMAIN map \cup {name} |-> IF n = name THEN value ELSE map[n]]

\* Environment.ancestor: `distance` steps along enclosing (0 stands for None; a step
\* from None is Python's AttributeError, reported as frame -1).
RECURSIVE ancestor(_, _, _)
ancestor(heap, env, distance) ==
    IF distance <= 0 THEN env
    ELSE IF env <= 0 THEN -1
    ELSE ancestor(heap, heap[env].enclosing, distance - 1)

\* The frame Environment.get / Environment.assign end in when started at env: the
\* first frame of the chain that binds the name, 0 when none does.
RECURSIVE holder(_, _, _)
holder(heap, env, lexeme) ==
    IF env <= 0 THEN 0
    ELSE IF lexeme \in DOMAIN heap[env].values THEN env
    ELSE holder(heap, heap[env].enclosing, lexeme)

\* ------------------------------------------------------------------ Resolver
\* Resolver.__init__, with Interpreter.locals (the side table the resolver writes
\* through Interpreter.resolve) carried along.
NewResolver ==
    [scopes |-> <<>>, locals |-> [k \in {} |-> 0], current_function |-> "None",
     exc |-> "ok", msg |-> "", warnings |-> <<>>]

\* An error that is noted nowhere and lets the resolver go on.
Resolver_error_ignored(rs, token, msg) == rs

\* Resolver.error
Resolver_error(rs, token, msg) ==
    [rs EXCEPT !.exc = "Resolver.RuntimeError", !.msg = msg]

\* Resolver.begin_scope
begin_scope(rs) == [rs EXCEPT !.scopes = Append(@, EmptyMap)]

\* Resolver.end_scope: a warning for every entry that is not USED, then the pop.
end_scope(rs) ==
    LET top == rs.scopes[Len(rs.scopes)]
        unused == {k \in DOMAIN top : top[k] # "USED"}
    IN [rs EXCEPT !.scopes = SubSeq(@, 1, Len(@) - 1),
                  !.warnings = IF unused = {} THEN @ ELSE Append(@, unused)]

\* Resolver.declare
declare(rs, name) ==
    IF rs.exc # "ok" \/ Len(rs.scopes) = 0 THEN rs
    ELSE IF name.lexeme \in DOMAIN rs.scopes[Len(rs.scopes)]
    THEN Resolver_error(rs, name, "Already a variable with this name in this scope.")
    ELSE [rs EXCEPT !.scopes[Len(rs.scopes)] = MapPut(@, name.lexeme, "DECLARED")]

\* Resolver.define
Resolver_define(rs, name) ==
    IF rs.exc # "ok" \/ Len(rs.scopes) = 0 THEN rs
    ELSE [rs EXCEPT !.scopes[Len(rs.scopes)] = MapPut(@, name.lexeme, "DEFINED")]

\* Interpreter.resolve
Interpreter_resolve(locals, expr, depth) == MapPut(locals, NodeKey(expr), depth)

\* The scope `for idx, scope in enumerate(self.scopes)` stops at: enumerate counts
\* from the first element of the list, which is the outermost scope. The result is
\* the position in the model's 1-based sequence, 0 when no scope holds the name.
first_scope_with(scopes, lexeme) ==
    LET holds == {i \in 1..Len(scopes) : lexeme \in DOMAIN scopes[i]}
    IN IF holds = {} THEN 0 ELSE CHOOSE i \in holds : \A j \in holds : i <= j

\* Resolver._resolve_local: the recorded depth is the Python index idx of that scope.
resolve_local(rs, expr, token, used) ==
    LET i == first_scope_with(rs.scopes, token.lexeme)
    IN IF rs.exc # "ok" \/ i = 0 THEN rs
       ELSE [rs EXCEPT !.locals = Interpreter_resolve(@, expr, i - 1),
                       !.scopes[i] = IF used THEN MapPut(@, token.lexeme, "USED") ELSE @]

RECURSIVE Resolver_expression(_, _)
RECURSIVE Resolver_expressions(_, _, _)
RECURSIVE Resolver_statement(_, _)
RECURSIVE Resolver_statements_from(_, _, _)

\* Resolver.expression (a Conditional, like None, matches no branch)
Resolver_expression(rs, expr) ==
    IF rs.exc # "ok" THEN rs
    ELSE CASE expr.type = "Variable" ->
              IF /\ Len(rs.scopes) > 0
                 /\ expr.name.lexeme \in DOMAIN rs.scopes[Len(rs.scopes)]
                 /\ rs.scopes[Len(rs.scopes)][expr.name.lexeme] = "DECLARED"
              THEN Resolver_error(rs, expr.name,
                                  "Can't read local variable in its own initializer.")
              ELSE resolve_local(rs, expr, expr.name, TRUE)
           [] expr.type = "Assign" ->
              resolve_local(Resolver_expression(rs, expr.value), expr, expr.name, FALSE)
           [] expr.type \in {"Binary", "Logical"} ->
              Resolver_expression(Resolver_expression(rs, expr.left), expr.right)
           [] expr.type = "Call" ->
              Resolver_expressions(Resolver_expression(rs, expr.callee), expr.arguments, 1)
           [] expr.type = "Grouping" -> Resolver_expression(rs, expr.expression)
           [] expr.type = "Unary" -> Resolver_expression(rs, expr.right)
           [] OTHER -> rs

\* `for argument in expr.arguments: self.expression(argument)`
Resolver_expressions(rs, exprs, i) ==
    IF rs.exc # "ok" \/ i > Len(exprs) THEN rs
    ELSE Resolver_expressions(Resolver_expression(rs, exprs[i]), exprs, i + 1)

\* Resolver.statements
Resolver_statements_from(rs, stmts, i) ==
    IF rs.exc # "ok" \/ i > Len(stmts) THEN rs
    ELSE Resolver_statements_from(Resolver_statement(rs, stmts[i]), stmts, i + 1)

Resolver_statements(rs, stmts) == Resolver_statements_from(rs, stmts, 1)

\* Resolver.function
Resolver_function(rs, func) ==
    LET enclosing_function == rs.current_function
        r1 == begin_scope([rs EXCEPT !.current_function = "FUNCTION"])
        declare_params[i \in 0..Len(func.params)] ==
            IF i = 0 THEN r1
            ELSE Resolver_define(declare(declare_params[i - 1], func.params[i]),
                                 func.params[i])
        r2 == Resolver_statements(declare_params[Len(func.params)], func.body)
    IN IF r2.exc # "ok" THEN r2
       ELSE [end_scope(r2) EXCEPT !.current_function = enclosing_function]

\* Resolver.block: `block.statements` of a statement that is no Block is Python's
\* AttributeError (only Block has the attribute).
Resolver_block(rs, block) ==
    LET r1 == begin_scope(rs)
    IN IF block.type # "Block" THEN [r1 EXCEPT !.exc = "AttributeError",
                                               !.msg = "object has no attribute 'statements'"]
       ELSE LET r2 == Resolver_statements(r1, block.statements)
            IN IF r2.exc # "ok" THEN r2 ELSE end_scope(r2)

\* Resolver.statement (ForExpression is a subclass of Expression)
Resolver_statement(rs, stmt) ==
    IF rs.exc # "ok" THEN rs
    ELSE CASE stmt.type = "Var" ->
              LET r1 == declare(rs, stmt.name)
                  r2 == IF stmt.initializer.type # "None"
                        THEN Resolver_expression(r1, stmt.initializer) ELSE r1
              IN Resolver_define(r2, stmt.name)
           [] stmt.type = "Function" ->
              LET r1 == Resolver_define(declare(rs, stmt.name), stmt.name)
              IN IF r1.exc # "ok" THEN r1 ELSE Resolver_function(r1, stmt)
           [] stmt.type \in {"Expression", "ForExpression", "Print"} ->
              Resolver_expression(rs, stmt.expression)
           [] stmt.type = "If" ->
              LET r1 == Resolver_statement(Resolver_expression(rs, stmt.condition),
                                           stmt.then_branch)
              IN IF stmt.else_branch.type # "None"
                 THEN Resolver_statement(r1, stmt.else_branch) ELSE r1
           [] stmt.type = "Return" ->
              IF rs.current_function = "None"
              THEN Resolver_error(rs, stmt, "Can't return from top-level code.")
              ELSE Resolver_expression(rs, stmt.value)
           [] stmt.type = "While" ->
              LET r1 == Resolver_expression(rs, stmt.condition)
              IN IF r1.exc # "ok" THEN r1 ELSE Resolver_block(r1, stmt.body)
           [] stmt.type = "Block" -> Resolver_block(rs, stmt)
           [] OTHER -> rs

\* ------------------------------------------------------------------ Interpreter
\* The interpreter's fields (globals is frame 1 of heap, environment the current
\* frame, locals the side table, out what print wrote), the exception in flight
\* (exc, msg, with v the value a ReturnException carries), the value v of the last
\* expression, and the history the properties are stated on: trace (one record per
\* step of interest), loops (the loop activations being executed, innermost last,
\* 0 for a function body), nloops (loop activations so far) and blocks (one record
\* per execute_block that ended: the environment before, the one entered, the way
\* the statements ended and the environment after).
Interpreter_init(clock) ==
    [heap |-> <<[values |->
                   [n \in {"clock", "echo"} |->
                      [t |-> "builtin",
                       v |-> [name |-> n, arity |-> IF n = "clock" THEN 0 ELSE 1]]],
                 enclosing |-> 0]>>,
     environment |-> 1, locals |-> [k \in {} |-> 0], out |-> <<>>,
     exc |-> "ok", msg |-> "", v |-> NilValue,
     now |-> clock, fuel |-> MaxFuel, trace |-> <<>>, loops |-> <<>>, nloops |-> 0,
     blocks |-> <<>>]

Raise(m, exc, msg) == [m EXCEPT !.exc = exc, !.msg = msg]
Log(m, event) == [m EXCEPT !.trace = Append(@, event)]
ActiveLoop(m) == IF Len(m.loops) = 0 THEN 0 ELSE m.loops[Len(m.loops)]

\* Environment.define
Env_define(m, env, name, value) ==
    IF name \in DOMAIN m.heap[env].values
    THEN Raise(m, "Environment.RuntimeError", "Var is already defined.")
    ELSE [m EXCEPT !.heap[env].values = MapPut(@, name, value)]

\* Environment.get, started at frame env (None.get is Python's AttributeError)
Env_get(m, env, token) ==
    LET h == holder(m.heap, env, token.lexeme)
    IN IF env <= 0 THEN Raise(m, "AttributeError", "'NoneType' object has no attribute")
       ELSE IF h = 0 THEN Raise(m, "Environment.RuntimeError", "Undefined variable")
       ELSE [m EXCEPT !.v = m.heap[h].values[token.lexeme]]

\* Environment.get_at
Env_get_at(m, env, distance, token) ==
    Env_get(m, ancestor(m.heap, env, distance), token)

\* Environment.assign, started at frame env
Env_assign(m, env, token, value) ==
    LET h == holder(m.heap, env, token.lexeme)
    IN IF env <= 0 THEN Raise(m, "AttributeError", "'NoneType' object has no attribute")
       ELSE IF h = 0 THEN Raise(m, "Environment.RuntimeError", "Undefined variable")
       ELSE [m EXCEPT !.heap[h].values[token.lexeme] = value]

\* Environment.assign_at
Env_assign_at(m, env, distance, token, value) ==
    Env_assign(m, ancestor(m.heap, env, distance), token, value)

\* What a resolved or unresolved use of a name did, for the history.
AccessEvent(m, ev, expr, distance) ==
    LET start == IF distance < 0 THEN 1 ELSE ancestor(m.heap, m.environment, distance)
    IN [ev |-> ev, key |-> NodeKey(expr), lexeme |-> expr.name.lexeme,
        distance |-> distance, env |-> m.environment, frame |-> start,
        binds |-> start > 0 /\ expr.name.lexeme \in DOMAIN m.heap[start].values,
        found |-> holder(m.heap, start, expr.name.lexeme),
        innermost |-> holder(m.heap, m.environment, expr.name.lexeme)]

\* Interpreter.check_numbers
check_numbers(m, values) ==
    IF \A i \in 1..Len(values) : IsNumber(values[i]) THEN m
    ELSE Raise(m, "Interpreter.RuntimeError",
               IF Len(values) = 1 THEN "Operand must be a number"
               ELSE "Operands must be numbers")

\* str(x) of a str, an int or a bool
PyStr(val) ==
    CASE val.t = "str" -> val.v
      [] val.t = "bool" -> IF val.v THEN "True" ELSE "False"
      [] OTHER -> ToString(val.v)

\* What print writes for a value (Interpreter.eval, Print)
Printed(val) ==
    CASE val.t = "nil" -> "nil"
      [] val.t = "bool" -> IF val.v THEN "true" ELSE "false"
      [] val.t = "builtin" -> "<fn " \o val.v.name \o ">"
      [] val.t = "function" -> "<fn " \o val.v.declaration.name.lexeme \o ">"
      [] OTHER -> PyStr(val)

\* A division that rounds toward zero, as C's does.
TruncDiv(l, r) ==
    LET al == IF l < 0 THEN -l ELSE l
        ar == IF r < 0 THEN -r ELSE r
    IN IF (l < 0) = (r < 0) THEN al \div ar ELSE -(al \div ar)

\* Python's left // right on ints, right # 0
FloorDiv(l, r) ==
    IF r > 0 THEN l \div r ELSE (-l) \div (-r)

\* The operation Interpreter._eval_binary performs once both operands are values.
binary_op(m, op, left, right) ==
    LET checked == check_numbers(m, <<left, right>>)
        l == AsInt(left)
        r == AsInt(right)
    IN CASE op = "BANG_EQUAL" ->
              IF checked.exc # "ok" THEN checked ELSE [m EXCEPT !.v = BoolValue(l # r)]
         [] op = "EQUAL_EQUAL" ->
              IF checked.exc # "ok" THEN checked ELSE [m EXCEPT !.v = BoolValue(l = r)]
         [] op = "GREATER" ->
              IF checked.exc # "ok" THEN checked ELSE [m EXCEPT !.v = BoolValue(l > r)]
         [] op = "GREATER_EQUAL" ->
              IF checked.exc # "ok" THEN checked ELSE [m EXCEPT !.v = BoolValue(l >= r)]
         [] op = "LESS" ->
              IF checked.exc # "ok" THEN checked ELSE [m EXCEPT !.v = BoolValue(l < r)]
         [] op = "LESS_EQUAL" ->
              IF checked.exc # "ok" THEN checked ELSE [m EXCEPT !.v = BoolValue(l <= r)]
         [] op \in {"MINUS", "MINUS_MINUS", "MINUS_EQUAL"} ->
              IF checked.exc # "ok" THEN checked ELSE [m EXCEPT !.v = NumValue(l - r)]
         [] op \in {"PLUS", "PLUS_PLUS", "PLUS_EQUAL"} ->
              IF ~(left.t \in {"str", "num", "bool"} /\ right.t \in {"str", "num", "bool"})
              THEN Raise(m, "Interpreter.RuntimeError", "Operands not supported for operator")
              ELSE IF left.t = "str" \/ right.t = "str"
              THEN [m EXCEPT !.v = StrValue(PyStr(left) \o PyStr(right))]
              ELSE [m EXCEPT !.v = NumValue(l + r)]
         [] op \in {"SLASH", "SLASH_EQUAL"} ->
              IF checked.exc # "ok" THEN checked
              ELSE IF r = 0 THEN Raise(m, "Interpreter.RuntimeError", "Divide by zero")
              ELSE [m EXCEPT !.v = NumValue(FloorDiv(l, r))]
         [] op \in {"STAR", "STAR_EQUAL"} ->
              IF checked.exc # "ok" THEN checked ELSE [m EXCEPT !.v = NumValue(l * r)]
         [] OTHER -> [m EXCEPT !.v = NilValue]

\* Environment(enclosing) allocated as the next frame of the heap.
Allocate(m, enclosing) == [m EXCEPT !.heap = Append(@, NewEnvironment(enclosing))]

RECURSIVE eval(_, _)
RECURSIVE eval_arguments(_, _, _, _)
RECURSIVE eval_statements_from(_, _, _)
RECURSIVE while_loop(_, _, _, _)
RECURSIVE bind_params(_, _, _, _, _)

\* `self.environment = previous` after the statements, without the try/finally.
restore_on_success(r, previous) ==
    IF r.exc = "ok" THEN [r EXCEPT !.environment = previous] ELSE r

\* `finally: self.environment = previous` of Interpreter.execute_block, whatever the
\* way r the statements ended.
restore(r, previous) == [r EXCEPT !.environment = previous]

\* Interpreter.execute_block
execute_block(m, statements, environment) ==
    LET previous == m.environment
        r == eval_statements_from([m EXCEPT !.environment = environment], statements, 1)
        after == restore(r, previous)
    IN [after EXCEPT !.blocks = Append(@, [previous |-> previous, entered |-> environment,
                                           by |-> r.exc,
                                           environment |-> after.environment])]

\* `for stmt in statements: self.eval(stmt)`
eval_statements_from(m, statements, i) ==
    IF m.exc # "ok" \/ i > Len(statements) THEN m
    ELSE eval_statements_from(eval(m, statements[i]), statements, i + 1)

\* An evaluation of both operands whatever the left one is.
returns_left_never(operator, left) == FALSE

\* The two tests of Interpreter._eval_logical that return the left operand:
\* `OR and left`, `AND and not left`.
returns_left(operator, left) ==
    \/ operator = "OR" /\ Truthy(left)
    \/ operator = "AND" /\ ~Truthy(left)

\* Interpreter._eval_logical
eval_logical(m, expression) ==
    LET left == eval(m, expression.left)
        short == returns_left(expression.operator, left.v)
        r == IF short THEN left ELSE eval(left, expression.right)
    IN IF left.exc # "ok" THEN left
       ELSE IF r.exc # "ok" THEN r
       ELSE Log(r, [ev |-> "logical", operator |-> expression.operator,
                    left |-> left.v, right_evaluated |-> ~short, value |-> r.v])

\* Interpreter._eval_binary: the right operand is evaluated before the left one.
eval_binary(m, expression) ==
    LET right == eval(m, expression.right)
        left == eval(right, expression.left)
    IN IF right.exc # "ok" THEN right
       ELSE IF left.exc # "ok" THEN left
       ELSE binary_op(left, expression.operator, left.v, right.v)

\* `for param, argument in zip(params, arguments): environment.define(...)`
bind_params(m, env, params, arguments, i) ==
    IF m.exc # "ok" \/ i > Len(params) \/ i > Len(arguments) THEN m
    ELSE bind_params(Env_define(m, env, params[i].lexeme, arguments[i]),
                     env, params, arguments, i + 1)

\* `environment = Environment(interpreter.environment)`: the caller's environment
\* as parent of the call's frame.
call_environment_of_caller(m, function) == Allocate(m, m.environment)

\* `environment = Environment(self.closure)` of Interpreter.Function.__call__
call_environment(m, function) == Allocate(m, function.closure)

\* Interpreter.Function.__call__
Function_call(m, function, arguments) ==
    LET environment == Len(m.heap) + 1
        m1 == bind_params(call_environment(m, function), environment,
                          function.declaration.params, arguments, 1)
        m2 == Log([m1 EXCEPT !.fuel = @ - 1, !.loops = Append(@, 0)],
                  [ev |-> "call", name |-> function.declaration.name.lexeme,
                   frame |-> environment, closure |-> function.closure,
                   parent |-> m1.heap[environment].enclosing,
                   caller |-> m.environment, arguments |-> arguments,
                   params |-> function.declaration.params,
                   bound |-> m1.heap[environment].values])
        r == execute_block(m2, function.declaration.body, environment)
    IN IF m.fuel = 0 THEN Raise(m, "OutOfFuel", "")
       ELSE IF m1.exc # "ok" THEN m1
       ELSE IF r.exc = "ReturnException"
       THEN Log([r EXCEPT !.exc = "ok", !.loops = m.loops],
                [ev |-> "call_end", frame |-> environment, by |-> "return",
                 value |-> r.v, environment |-> r.environment])
       ELSE IF r.exc = "ok"
       THEN Log([r EXCEPT !.v = NilValue, !.loops = m.loops],
                [ev |-> "call_end", frame |-> environment, by |-> "end",
                 value |-> NilValue, environment |-> r.environment])
       ELSE r

\* Interpreter.Callable.__call__ for the two builtins of Interpreter.__init__
Callable_call(m, callable, arguments) ==
    Log([m EXCEPT !.v = IF callable.name = "clock" THEN NumValue(m.now)
                        ELSE arguments[1]],
        [ev |-> "host", name |-> callable.name, arguments |-> arguments])

\* The arguments evaluated from the last to the first.
RECURSIVE eval_arguments_reversed(_, _, _, _)
eval_arguments_reversed(m, exprs, i, acc) ==
    IF m.exc # "ok" \/ i > Len(exprs) THEN [m |-> m, args |-> acc]
    ELSE LET r == eval(m, exprs[Len(exprs) + 1 - i])
         IN eval_arguments_reversed(r, exprs, i + 1, <<r.v>> \o acc)

\* `for argument in expr.arguments: arguments.append(self.eval(argument))`; the
\* values so far are carried in acc and end in the field args.
eval_arguments(m, exprs, i, acc) ==
    IF m.exc # "ok" \/ i > Len(exprs) THEN [m |-> m, args |-> acc]
    ELSE LET r == eval(m, exprs[i])
         IN eval_arguments(r, exprs, i + 1, Append(acc, r.v))

\* Callable.arity, and Function.arity = len(self.declaration.params)
Callable_arity(function) ==
    IF function.t = "builtin" THEN function.v.arity
    ELSE Len(function.v.declaration.params)

\* The test `function.arity > len(arguments)`, which lets surplus arguments pass.
arity_exceeds(function, arguments) == Callable_arity(function) > Len(arguments)

\* The test `function.arity != len(arguments)` of Interpreter._eval_call
arity_differs(function, arguments) == Callable_arity(function) # Len(arguments)

\* Interpreter._eval_call
eval_call(m, expr) ==
    LET f == eval(m, expr.callee)
        function == f.v
        a == eval_arguments(f, expr.arguments, 1, <<>>)
        arity == Callable_arity(function)
    IN IF f.exc # "ok" THEN f
       ELSE IF ~IsCallable(function)
       THEN Raise(f, "Interpreter.RuntimeError", "Can only call functions and classes.")
       ELSE IF a.m.exc # "ok" THEN a.m
       ELSE IF arity_differs(function, a.args)
       THEN Raise(Log(a.m, [ev |-> "arity", arity |-> arity, got |-> Len(a.args),
                            callee |-> function.t]),
                  "Interpreter.RuntimeError", "Call expected other number of arguments")
       ELSE IF function.t = "builtin" THEN Callable_call(a.m, function.v, a.args)
       ELSE Function_call(a.m, function.v, a.args)

\* A try statement whose `except BreakException` goes on like `except
\* ContinueException`.
loop_signal_break_as_continue(exc) ==
    CASE exc = "ok" -> "next"
      [] exc \in {"BreakException", "ContinueException"} -> "continue"
      [] OTHER -> "raise"

\* How the try statement in the `while` of Interpreter._eval_statement takes the way
\* the body ended: on to the next turn, `except BreakException: break`,
\* `except ContinueException`, or the exception passes through.
loop_signal(exc) ==
    CASE exc = "ok" -> "next"
      [] exc = "BreakException" -> "break"
      [] exc = "ContinueException" -> "continue"
      [] OTHER -> "raise"

\* The `while` of Interpreter._eval_statement, one turn per call: id names this
\* activation of the loop and own is the loops history while it runs.
while_loop(m, stmt, id, own) ==
    LET c == eval(m, stmt.condition)
        c1 == Log(c, [ev |-> "cond", loop |-> id, value |-> c.v])
        b == eval([c1 EXCEPT !.fuel = @ - 1], stmt.body)
        caught == [b EXCEPT !.exc = "ok", !.loops = own]
        last == stmt.body.statements[Len(stmt.body.statements)]
        outer == IF Len(own) > 1 THEN own[Len(own) - 1] ELSE 0
    IN IF m.exc # "ok" THEN m
       ELSE IF m.fuel = 0 THEN Raise(m, "OutOfFuel", "")
       ELSE IF c.exc # "ok" THEN c
       ELSE IF ~Truthy(c.v)
       THEN Log([c1 EXCEPT !.v = NilValue],
                [ev |-> "exit", loop |-> id, by |-> "cond", outer |-> outer])
       ELSE CASE loop_signal(b.exc) = "next" -> while_loop(b, stmt, id, own)
              [] loop_signal(b.exc) = "break" ->
                 Log([caught EXCEPT !.v = NilValue],
                     [ev |-> "exit", loop |-> id, by |-> "break", outer |-> outer])
              [] loop_signal(b.exc) = "continue" ->
                 IF stmt.body.type # "Block"
                 THEN Raise(caught, "AttributeError", "object has no attribute 'statements'")
                 ELSE IF Len(stmt.body.statements) > 0 /\ last.type = "ForExpression"
                 THEN while_loop(eval(Log(caught, [ev |-> "handler", loop |-> id]), last),
                                 stmt, id, own)
                 ELSE while_loop(caught, stmt, id, own)
              [] OTHER -> b

\* Interpreter._eval_statement
eval_statement(m, stmt) ==
    CASE stmt.type = "Var" ->
           LET r == IF stmt.initializer.type # "None" THEN eval(m, stmt.initializer)
                    ELSE [m EXCEPT !.v = NilValue]
               d == Env_define(Log(r, [ev |-> "define", lexeme |-> stmt.name.lexeme,
                                       column |-> stmt.name.column,
                                       env |-> r.environment]),
                               r.environment, stmt.name.lexeme, r.v)
           IN IF r.exc # "ok" THEN r
              ELSE IF d.exc # "ok" THEN d ELSE [d EXCEPT !.v = NilValue]
      [] stmt.type = "Block" ->
           LET r == execute_block(Allocate(m, m.environment), stmt.statements,
                                  Len(m.heap) + 1)
           IN IF r.exc # "ok" THEN r ELSE [r EXCEPT !.v = NilValue]
      [] stmt.type = "If" ->
           LET c == eval(m, stmt.condition)
               r == IF Truthy(c.v) THEN eval(c, stmt.then_branch)
                    ELSE eval(c, stmt.else_branch)
           IN IF c.exc # "ok" THEN c
              ELSE IF r.exc # "ok" THEN r ELSE [r EXCEPT !.v = NilValue]
      [] stmt.type = "Function" ->
           LET function == [t |-> "function",
                            v |-> [declaration |-> stmt, closure |-> m.environment]]
               d == Env_define(Log(m, [ev |-> "define", lexeme |-> stmt.name.lexeme,
                                       column |-> stmt.name.column,
                                       env |-> m.environment]),
                               m.environment, stmt.name.lexeme, function)
           IN IF d.exc # "ok" THEN d ELSE [d EXCEPT !.v = NilValue]
      [] stmt.type = "Break" -> Raise(m, "BreakException", "")
      [] stmt.type = "Continue" -> Raise(m, "ContinueException", "")
      [] stmt.type = "Return" ->
           LET r == IF stmt.value.type # "None" THEN eval(m, stmt.value)
                    ELSE [m EXCEPT !.v = NilValue]
           IN IF r.exc # "ok" THEN r
              ELSE Raise(Log(r, [ev |-> "return", value |-> r.v, env |-> r.environment]),
                         "ReturnException", "")
      [] stmt.type = "While" ->
           LET id == m.nloops + 1
               own == Append(m.loops, id)
               r == while_loop([m EXCEPT !.nloops = id, !.loops = own], stmt, id, own)
           IN IF r.exc # "ok" THEN r ELSE [r EXCEPT !.loops = m.loops]
      [] OTHER -> [m EXCEPT !.v = NilValue]

\* Interpreter.eval; a statement is also noted in the history with the loop
\* activation it runs in.
eval(m, expression) ==
    LET ms == Log(m, [ev |-> "exec", type |-> expression.type, loop |-> ActiveLoop(m),
                      env |-> m.environment])
        key == NodeKey(expression)
    IN
    IF m.exc # "ok" THEN m
    ELSE CASE expression.type = "Literal" -> [m EXCEPT !.v = expression.value]
           [] expression.type = "Grouping" -> eval(m, expression.expression)
           [] expression.type = "Unary" ->
              LET right == eval(m, expression.right)
                  checked == check_numbers(right, <<right.v>>)
              IN IF right.exc # "ok" THEN right
                 ELSE IF expression.operator = "MINUS"
                 THEN IF checked.exc # "ok" THEN checked
                      ELSE [right EXCEPT !.v = NumValue(-AsInt(right.v))]
                 ELSE [right EXCEPT !.v = BoolValue(~Truthy(right.v))]
           [] expression.type = "Conditional" ->
              LET c == eval(m, expression.expression)
              IN IF c.exc # "ok" THEN c
                 ELSE IF Truthy(c.v) THEN eval(c, expression.left)
                 ELSE eval(c, expression.right)
           [] expression.type \in {"Expression", "ForExpression"} ->
              LET r == eval(ms, expression.expression)
              IN IF r.exc # "ok" THEN r ELSE [r EXCEPT !.v = NilValue]
           [] expression.type = "Print" ->
              LET r == eval(ms, expression.expression)
              IN IF r.exc # "ok" THEN r
                 ELSE [r EXCEPT !.out = Append(@, Printed(r.v)), !.v = NilValue]
           [] expression.type = "Variable" ->
              IF key \in DOMAIN m.locals
              THEN Env_get_at(Log(m, AccessEvent(m, "get_at", expression, m.locals[key])),
                              m.environment, m.locals[key], expression.name)
              ELSE Env_get(Log(m, AccessEvent(m, "global_get", expression, -1)),
                           1, expression.name)
           [] expression.type = "Assign" ->
              LET r == eval(m, expression.value)
                  w == IF key \in DOMAIN m.locals
                       THEN Env_assign_at(
                                Log(r, AccessEvent(r, "assign_at", expression, m.locals[key])),
                                r.environment, m.locals[key], expression.name, r.v)
                       ELSE Env_assign(
                                Log(r, AccessEvent(r, "global_assign", expression, -1)),
                                1, expression.name, r.v)
              IN IF r.exc # "ok" THEN r ELSE w
           [] expression.type = "Logical" -> eval_logical(m, expression)
           [] expression.type = "Binary" -> eval_binary(m, expression)
           [] expression.type = "Call" -> eval_call(m, expression)
           [] expression.type = "None" -> [m EXCEPT !.v = NilValue]
           [] OTHER -> eval_statement(ms, expression)

\* ------------------------------------------------------------------ the programs
\* Shorthands for the trees Parser.primary, Parser.expression and
\* Parser.expression_statement build; a column is the offset of the name's token.
V(lexeme, column) == Variable(Token(lexeme, column))
A(lexeme, column, value) == Assign(Token(lexeme, column), value)
Num(n) == Literal(NumValue(n))
Str(s) == Literal(StrValue(s))
VarDecl(lexeme, column, initializer) == Var(Token(lexeme, column), initializer)
Fun(lexeme, column, params, body) == Function(Token(lexeme, column), params, body)

\* var b = 2; print b; b = b + 1; print b;
LocalProgram ==
    << VarDecl("b", 4, Num(2)),
       PrintStmt(V("b", 17)),
       Expression(A("b", 20, Binary(V("b", 24), "PLUS", Num(1)))),
       PrintStmt(V("b", 37)) >>

\* var a = 1; { var a = 2; a = 3; print a; } print a;
ShadowProgram ==
    << VarDecl("a", 4, Num(1)),
       Block(<< VarDecl("a", 17, Num(2)),
                Expression(A("a", 24, Num(3))),
                PrintStmt(V("a", 37)) >>),
       PrintStmt(V("a", 48)) >>

\* fun counter() { var i = 0; fun inc() { i += 1; return i; } return inc; }
\* var c = counter(); print c(); print c(); var d = counter(); print d(); print c();
CounterProgram ==
    << Fun("counter", 4, <<>>,
           << VarDecl("i", 20, Num(0)),
              Fun("inc", 31, <<>>,
                  << Expression(A("i", 39, Binary(V("i", 39), "PLUS_EQUAL", Num(1)))),
                     Return(V("i", 54)) >>),
              Return(V("inc", 65)) >>),
       VarDecl("c", 76, Call(V("counter", 80), <<>>)),
       PrintStmt(Call(V("c", 97), <<>>)),
       PrintStmt(Call(V("c", 109), <<>>)),
       VarDecl("d", 118, Call(V("counter", 122), <<>>)),
       PrintStmt(Call(V("d", 139), <<>>)),
       PrintStmt(Call(V("c", 151), <<>>)) >>

\* fun fib(n) { if (n <= 1) return n; return fib(n - 2) + fib(n - 1); }
\* var f = fib(FibArg); print f;
FibProgram ==
    << Fun("fib", 4, <<Token("n", 8)>>,
           << If(Binary(V("n", 17), "LESS_EQUAL", Num(1)), Return(V("n", 32)), None),
              Return(Binary(Call(V("fib", 42), <<Binary(V("n", 46), "MINUS", Num(2))>>),
                            "PLUS",
                            Call(V("fib", 55), <<Binary(V("n", 59), "MINUS", Num(1))>>))) >>),
       VarDecl("f", 73, Call(V("fib", 77), <<Num(FibArg)>>)),
       PrintStmt(V("f", 92)) >>

\* var tag = "outer"; fun sum(a, b) { return a + b; } fun noop(a) { a = a; }
\* fun first() { while (true) { return 7; } }
\* fun show() { return tag; } fun relay() { var tag = "inner"; return show(); }
\* print sum(1, 2); print noop(1); print first(); print relay();
CallsProgram ==
    << VarDecl("tag", 230, Str("outer")),
       Fun("sum", 4, <<Token("a", 8), Token("b", 11)>>,
           << Return(Binary(V("a", 23), "PLUS", V("b", 27))) >>),
       Fun("noop", 36, <<Token("a", 41)>>,
           << Expression(A("a", 46, V("a", 50))) >>),
       Fun("first", 59, <<>>,
           << While(Literal(BoolValue(TRUE)), Block(<< Return(Num(7)) >>)) >>),
       Fun("show", 104, <<>>, << Return(V("tag", 120)) >>),
       Fun("relay", 131, <<>>,
           << VarDecl("tag", 145, Str("inner")),
              Return(Call(V("show", 167), <<>>)) >>),
       PrintStmt(Call(V("sum", 184), <<Num(1), Num(2)>>)),
       PrintStmt(Call(V("noop", 202), <<Num(1)>>)),
       PrintStmt(Call(V("first", 217), <<>>)),
       PrintStmt(Call(V("relay", 251), <<>>)) >>

\* var a = 0; var b = 0;
\* for (var a = 0; a < 3; a = a + 1) { if (a == 1) { continue; } b = b + a; }
\* print b;
ForContinueProgram ==
    << VarDecl("a", 4, Num(0)),
       VarDecl("b", 15, Num(0)),
       for_statement(VarDecl("a", 31, Num(0)),
                     Binary(V("a", 38), "LESS", Num(3)),
                     A("a", 45, Binary(V("a", 49), "PLUS", Num(1))),
                     Block(<< If(Binary(V("a", 62), "EQUAL_EQUAL", Num(1)),
                                 Block(<<Continue>>), None),
                              Expression(A("b", 85, Binary(V("b", 89), "PLUS",
                                                          V("a", 93)))) >>)),
       PrintStmt(V("b", 105)) >>

\* var a = 0; while (a < 5) { a = a + 1; if (a == 2) { break; } print a; } print a;
BreakWhileProgram ==
    << VarDecl("a", 4, Num(0)),
       While(Binary(V("a", 18), "LESS", Num(5)),
             Block(<< Expression(A("a", 27, Binary(V("a", 31), "PLUS", Num(1)))),
                      If(Binary(V("a", 42), "EQUAL_EQUAL", Num(2)), Block(<<Break>>), None),
                      PrintStmt(V("a", 66)) >>)),
       PrintStmt(V("a", 77)) >>

\* var t = 0; for (var i = 0; i < 5; i = i + 1) { if (i == 2) { break; } t = i; }
\* print t;
BreakForProgram ==
    << VarDecl("t", 4, Num(0)),
       for_statement(VarDecl("i", 20, Num(0)),
                     Binary(V("i", 27), "LESS", Num(5)),
                     A("i", 34, Binary(V("i", 38), "PLUS", Num(1))),
                     Block(<< If(Binary(V("i", 51), "EQUAL_EQUAL", Num(2)),
                                 Block(<<Break>>), None),
                              Expression(A("t", 71, V("i", 75))) >>)),
       PrintStmt(V("t", 87)) >>

\* var n = 0; var o = 0;
\* for (; o < 2; o = o + 1) { var j = 0; while (true) { j = j + 1;
\*     if (j == 2) { break; } n = n + 1; } }
\* print n;
BreakNestedProgram ==
    << VarDecl("n", 4, Num(0)),
       VarDecl("o", 15, Num(0)),
       for_statement(None,
                     Binary(V("o", 29), "LESS", Num(2)),
                     A("o", 36, Binary(V("o", 40), "PLUS", Num(1))),
                     Block(<< VarDecl("j", 53, Num(0)),
                              While(Literal(BoolValue(TRUE)),
                                    Block(<< Expression(A("j", 75, Binary(V("j", 79), "PLUS",
                                                                         Num(1)))),
                                             If(Binary(V("j", 90), "EQUAL_EQUAL", Num(2)),
                                                Block(<<Break>>), None),
                                             Expression(A("n", 110, Binary(V("n", 114), "PLUS",
                                                                          Num(1)))) >>)) >>)),
       PrintStmt(V("n", 130)) >>

\* The loops of the grammar's `"while" "(" expression ")" statement` and of a for
\* without increment clause, by the statement that is the body:
\*   1  var a = 0; while (a < 2) { a = a + 1; } print a;
\*   2  var a = 0; while (a < 2) a = a + 1; print a;
\*   3  var a = 0; while (a < 2) if (a < 5) a = a + 1; print a;
\*   4  var a = 0; for (; (a = a + 1) < 2;) continue; print a;
\*   5  var a = 0; for (; a < 2;) { a = a + 1; } print a;
LoopBody(shape) ==
    CASE shape = 1 -> Block(<< Expression(A("a", 27, Binary(V("a", 31), "PLUS", Num(1)))) >>)
      [] shape = 2 -> Expression(A("a", 27, Binary(V("a", 31), "PLUS", Num(1))))
      [] shape = 3 -> If(Binary(V("a", 40), "LESS", Num(5)),
                         Expression(A("a", 27, Binary(V("a", 31), "PLUS", Num(1)))), None)
      [] shape = 4 -> Continue
      [] OTHER -> Block(<< Expression(A("a", 27, Binary(V("a", 31), "PLUS", Num(1)))) >>)

LoopShapes == 1..5

LoopProgram(shape) ==
    << VarDecl("a", 4, Num(0)),
       IF shape = 4
       THEN for_statement(None,
                          Binary(Grouping(A("a", 18, Binary(V("a", 22), "PLUS", Num(1)))),
                                 "LESS", Num(2)),
                          None, LoopBody(shape))
       ELSE IF shape = 5
       THEN for_statement(None, Binary(V("a", 18), "LESS", Num(2)), None, LoopBody(shape))
       ELSE While(Binary(V("a", 18), "LESS", Num(2)), LoopBody(shape)),
       PrintStmt(V("a", 60)) >>

\* The operand values of the truthiness and short-circuit programs, as the
\* expressions that yield them: nil, false, true, 0, 1, "", "s", clock.
OperandCount == 8
Operand(i) ==
    CASE i = 1 -> Literal(NilValue)
      [] i = 2 -> Literal(BoolValue(FALSE))
      [] i = 3 -> Literal(BoolValue(TRUE))
      [] i = 4 -> Num(0)
      [] i = 5 -> Num(1)
      [] i = 6 -> Str("")
      [] i = 7 -> Str("s")
      [] OTHER -> V("clock", 500 + i)

\* The value Operand(i) evaluates to.
OperandValue(i) ==
    IF i <= 7 THEN Operand(i).value
    ELSE [t |-> "builtin", v |-> [name |-> "clock", arity |-> 0]]

\* var r = 0; if (v) r = 1; else r = 2;  var c = v ? 1 : 2;  var n = !v;
\* var w = 0; while (v) { w = 1; break; }  print r; print c; print n; print w;
TruthProgram(i) ==
    << VarDecl("r", 4, Num(0)),
       If(Operand(i), Expression(A("r", 20, Num(1))), Expression(A("r", 32, Num(2)))),
       VarDecl("c", 44, Conditional(Operand(i), Num(1), Num(2))),
       VarDecl("n", 64, Unary("BANG", Operand(i))),
       VarDecl("w", 76, Num(0)),
       While(Operand(i), Block(<< Expression(A("w", 98, Num(1))), Break >>)),
       PrintStmt(V("r", 120)), PrintStmt(V("c", 129)),
       PrintStmt(V("n", 138)), PrintStmt(V("w", 147)) >>

\* var x = "unset"; var y = "unset"; var r = (x = v1) op (y = v2);
\* print x; print y; print r;
LogicProgram(op, i, j) ==
    << VarDecl("x", 4, Str("unset")),
       VarDecl("y", 21, Str("unset")),
       VarDecl("r", 38, Logical(Grouping(A("x", 43, Operand(i))), op,
                                Grouping(A("y", 56, Operand(j))))),
       PrintStmt(V("x", 72)), PrintStmt(V("y", 81)), PrintStmt(V("r", 90)) >>

\* fun f0() { print "body"; return 0; } fun f1(a) { print "body"; return 1; }
\* fun f2(a, b) { print "body"; return 2; }
\* var r = callee(1, .., k); print "after";
\* with callee one of clock, echo, f0, f1, f2.
Callees == <<"clock", "echo", "f0", "f1", "f2">>
CalleeArity == <<0, 1, 0, 1, 2>>

ArityProgram(callee, k) ==
    << Fun("f0", 4, <<>>, << PrintStmt(Str("body")), Return(Num(0)) >>),
       Fun("f1", 44, <<Token("a", 47)>>, << PrintStmt(Str("body")), Return(Num(1)) >>),
       Fun("f2", 84, <<Token("a", 87), Token("b", 90)>>,
           << PrintStmt(Str("body")), Return(Num(2)) >>),
       VarDecl("r", 130, Call(V(Callees[callee], 134), [n \in 1..k |-> Num(n)])),
       PrintStmt(Str("after")) >>

\* fun f(a, b) { print "body"; return 0; }  fun pick() { print "callee"; return f; }
\* fun one() { print "callee"; return 1; }   fun arg(n) { print n; return n; }
\* var r = callee()(arg(1), .., arg(k)); print "after";
\* with callee pick (1), which yields the function f, or one (2), which yields 1.
OrderCallees == <<"pick", "one">>

OrderProgram(callee, k) ==
    << Fun("f", 4, <<Token("a", 6), Token("b", 9)>>,
           << PrintStmt(Str("body")), Return(Num(0)) >>),
       Fun("pick", 44, <<>>, << PrintStmt(Str("callee")), Return(V("f", 75)) >>),
       Fun("one", 84, <<>>, << PrintStmt(Str("callee")), Return(Num(1)) >>),
       Fun("arg", 124, <<Token("n", 128)>>,
           << PrintStmt(V("n", 139)), Return(V("n", 149)) >>),
       VarDecl("r", 158, Call(Call(V(OrderCallees[callee], 162), <<>>),
                              [i \in 1..k |-> Call(V("arg", 170 + 8 * i), <<Num(i)>>)])),
       PrintStmt(Str("after")) >>

\* print "before"; <statement>; print "after";
\* with the statement one of
\*   1  print 1 - "a";     2  print 1 / 0;     3  print clock(1);
\*   4  print "s"();       5  print nope;      6  print 1;
FailStatements ==
    << PrintStmt(Binary(Num(1), "MINUS", Str("a"))),
       PrintStmt(Binary(Num(1), "SLASH", Num(0))),
       PrintStmt(Call(V("clock", 22), <<Num(1)>>)),
       PrintStmt(Call(Str("s"), <<>>)),
       PrintStmt(V("nope", 22)),
       PrintStmt(Num(1)) >>

FailProgram(i) == << PrintStmt(Str("before")), FailStatements[i], PrintStmt(Str("after")) >>

\* var a = 10; { a = 11; var b = a; } print a;
ScopeProgram ==
    << VarDecl("a", 4, Num(10)),
       Block(<< Expression(A("a", 13, Num(11))),
                VarDecl("b", 25, V("a", 29)) >>),
       PrintStmt(V("a", 40)) >>

\* var g = 1; print "before"; <statement>
\* with the statement one of
\*   1  { var a = a; }     2  { var a = 1; var a = 2; }     3  return 1;
ResolverErrorStatements ==
    << Block(<< VarDecl("a", 34, V("a", 38)) >>),
       Block(<< VarDecl("a", 34, Num(1)), VarDecl("a", 45, Num(2)) >>),
       Return(Num(1)) >>

ResolverErrorProgram(i) ==
    << VarDecl("g", 4, Num(1)), PrintStmt(Str("before")), ResolverErrorStatements[i] >>

\* var g = 5; { var a = 1; print <expression>; }
\* with the expression one of
\*   1  a               2  a + g               3  true ? a : 2      4  a ? 1 : 2
\*   5  false ? 2 : a   6  true ? (a = 3) : 2  7  true ? g : 2      8  (a) + -a
ConditionalExpressions ==
    << V("a", 30),
       Binary(V("a", 30), "PLUS", V("g", 34)),
       Conditional(Literal(BoolValue(TRUE)), V("a", 37), Num(2)),
       Conditional(V("a", 30), Num(1), Num(2)),
       Conditional(Literal(BoolValue(FALSE)), Num(2), V("a", 42)),
       Conditional(Literal(BoolValue(TRUE)), Grouping(A("a", 38, Num(3))), Num(2)),
       Conditional(Literal(BoolValue(TRUE)), V("g", 37), Num(2)),
       Binary(Grouping(V("a", 31)), "PLUS", Unary("MINUS", V("a", 37))) >>

ConditionalProgram(i) ==
    << VarDecl("g", 4, Num(5)),
       Block(<< VarDecl("a", 17, Num(1)), PrintStmt(ConditionalExpressions[i]) >>) >>

\* A break or a continue in the body of a function that is declared in a loop
\* body, the function called in the loop (1, 2) or after it (3, 4):
\*   1, 2  var i = 0; while (i < 2) { fun f() { <jump>; } i = i + 1; f(); print i; }
\*         print "end";
\*   3, 4  var h; while (true) { fun f() { <jump>; } h = f; break; } h(); print "end";
\* with break as the jump in 1 and 3 and continue in 2 and 4.
JumpInFunctionProgram(i) ==
    LET jump == IF i \in {1, 3} THEN Break ELSE Continue
    IN IF i <= 2
       THEN << VarDecl("i", 4, Num(0)),
               While(Binary(V("i", 18), "LESS", Num(2)),
                     Block(<< Fun("f", 31, <<>>, << jump >>),
                              Expression(A("i", 50, Binary(V("i", 54), "PLUS", Num(1)))),
                              Expression(Call(V("f", 61), <<>>)),
                              PrintStmt(V("i", 72)) >>)),
               PrintStmt(Str("end")) >>
       ELSE << VarDecl("h", 4, None),
               While(Literal(BoolValue(TRUE)),
                     Block(<< Fun("f", 27, <<>>, << jump >>),
                              Expression(A("h", 46, V("f", 50))),
                              Break >>)),
               Expression(Call(V("h", 62), <<>>)),
               PrintStmt(Str("end")) >>

\* Binary expressions whose operands have side effects:
\*   1  fun l() { print "l"; return 1; } fun r() { print "r"; return 2; }
\*      print l() - r();
\*   2  var x = 1; fun e() { x = 10; return 1; } print x + e();
\*   3  var x = 1; print (x = 5) + x;
\*   4  var x = 1; fun e() { x = 10; return 1; } x += e(); print x;
\*   5  var x = 1; fun e() { x = 10; return 1; } print e() + x;
OperandsProgram(i) ==
    LET e == Fun("e", 15, <<>>, << Expression(A("x", 21, Num(10))), Return(Num(1)) >>)
    IN CASE i = 1 ->
              << Fun("l", 4, <<>>, << PrintStmt(Str("l")), Return(Num(1)) >>),
                 Fun("r", 37, <<>>, << PrintStmt(Str("r")), Return(Num(2)) >>),
                 PrintStmt(Binary(Call(V("l", 72), <<>>), "MINUS", Call(V("r", 78), <<>>))) >>
         [] i = 2 ->
              << VarDecl("x", 4, Num(1)), e,
                 PrintStmt(Binary(V("x", 48), "PLUS", Call(V("e", 52), <<>>))) >>
         [] i = 3 ->
              << VarDecl("x", 4, Num(1)),
                 PrintStmt(Binary(Grouping(A("x", 18, Num(5))), "PLUS", V("x", 27))) >>
         [] i = 4 ->
              << VarDecl("x", 4, Num(1)), e,
                 Expression(A("x", 42, Binary(V("x", 42), "PLUS_EQUAL",
                                              Call(V("e", 47), <<>>)))),
                 PrintStmt(V("x", 58)) >>
         [] OTHER ->
              << VarDecl("x", 4, Num(1)), e,
                 PrintStmt(Binary(Call(V("e", 48), <<>>), "PLUS", V("x", 54))) >>

\* The binary operators of Interpreter._eval_binary: those under check_numbers, and
\* the additions.  A compound operator stands in the tree Parser.term and
\* Parser.factor build for `x op= R` and `x++`, Assign(x, Binary(x, op, R)).
NumericOps ==
    {"BANG_EQUAL", "EQUAL_EQUAL", "GREATER", "GREATER_EQUAL", "LESS", "LESS_EQUAL",
     "MINUS", "MINUS_EQUAL", "MINUS_MINUS", "SLASH", "SLASH_EQUAL", "STAR", "STAR_EQUAL"}
PlusOps == {"PLUS", "PLUS_EQUAL", "PLUS_PLUS"}
CompoundOps == {"MINUS_EQUAL", "PLUS_EQUAL", "SLASH_EQUAL", "STAR_EQUAL"}
StepOps == {"MINUS_MINUS", "PLUS_PLUS"}

\* print L op R;    var x = L; x op= R; print x;    var x = L; x++; print x;
\* print -L;        with L and R among the operands above.
BinaryProgram(op, i, j) ==
    IF op = "NEG" THEN << PrintStmt(Unary("MINUS", Operand(i))) >>
    ELSE IF op \in CompoundOps \cup StepOps
    THEN << VarDecl("x", 4, Operand(i)),
            Expression(A("x", 11, Binary(V("x", 11), op,
                                         IF op \in StepOps THEN Num(1) ELSE Operand(j)))),
            PrintStmt(V("x", 25)) >>
    ELSE << PrintStmt(Binary(Operand(i), op, Operand(j))) >>

\* The integer n as the scanner and parser deliver it: a literal, under a unary
\* minus when negative.
MaxInt == 3
IntExpr(n) == IF n < 0 THEN Unary("MINUS", Num(-n)) ELSE Num(n)

\* print l / r;        var x = l; x /= r; print x;
DivProgram(op, l, r) ==
    IF op = "SLASH_EQUAL"
    THEN << VarDecl("x", 4, IntExpr(l)),
            Expression(A("x", 11, Binary(V("x", 11), op, IntExpr(r)))),
            PrintStmt(V("x", 25)) >>
    ELSE << PrintStmt(Binary(IntExpr(l), op, IntExpr(r))) >>

\* ------------------------------------------------------------------ the sources
\* The token lists handed to the parser.  A token is written as type, lexeme and
\* literal; Scanned numbers them (the column stands for the offset, which grows
\* with the position) and ends the list with the EOF token.
K(type, lexeme) == <<type, lexeme, NilValue>>
N(n) == <<"NUMBER", ToString(n), NumValue(n)>>

Scanned(items) ==
    [i \in 1..(Len(items) + 1) |->
        IF i <= Len(items)
        THEN ScannedToken(items[i][1], items[i][2], items[i][3], i)
        ELSE ScannedToken("EOF", "", NilValue, -1)]

\* The lexeme of the operator tokens that may stand where an operand is expected.
OperatorLexeme ==
    [BANG_EQUAL |-> "!=", EQUAL_EQUAL |-> "==", GREATER |-> ">", GREATER_EQUAL |-> ">=",
     LESS |-> "<", LESS_EQUAL |-> "<=", PLUS |-> "+", SLASH |-> "/", STAR |-> "*",
     PLUS_EQUAL |-> "+=", AND |-> "and"]

\* The lexeme of the compound assignment and the step operators.
CompoundLexeme ==
    [PLUS_EQUAL |-> "+=", MINUS_EQUAL |-> "-=", STAR_EQUAL |-> "*=", SLASH_EQUAL |-> "/=",
     PLUS_PLUS |-> "++", MINUS_MINUS |-> "--"]

StepTypes == {"PLUS_PLUS", "MINUS_MINUS"}

CompoundChunks ==
    {"compound", "compound_sum", "compound_literal", "compound_group", "compound_call"}

\* x <op> ..., 1 <op> ..., (x) <op> ..., f() <op> ... : the operand, the operator
\* and the right-hand side, a 2 or the sum 1 + 2.
CompoundTokens(name, op) ==
    LET operand == CASE name = "compound_literal" -> << N(1) >>
                     [] name = "compound_group" ->
                            << K("LEFT_PAREN", "("), K("IDENTIFIER", "x"),
                               K("RIGHT_PAREN", ")") >>
                     [] name = "compound_call" ->
                            << K("IDENTIFIER", "f"), K("LEFT_PAREN", "("),
                               K("RIGHT_PAREN", ")") >>
                     [] OTHER -> << K("IDENTIFIER", "x") >>
        right == IF op \in StepTypes THEN <<>>
                 ELSE IF name = "compound_sum" THEN << N(1), K("PLUS", "+"), N(2) >>
                 ELSE << N(2) >>
    IN operand \o << K(op, CompoundLexeme[op]) >> \o right \o << K("SEMICOLON", ";") >>

\* The binary operators of the grammar with their lexemes, and the two unary ones.
BinaryLexeme ==
    [OR |-> "or", AND |-> "and", BANG_EQUAL |-> "!=", EQUAL_EQUAL |-> "==",
     GREATER |-> ">", GREATER_EQUAL |-> ">=", LESS |-> "<", LESS_EQUAL |-> "<=",
     MINUS |-> "-", PLUS |-> "+", SLASH |-> "/", STAR |-> "*"]

UnaryLexeme == [BANG |-> "!", MINUS |-> "-"]

\* 1 <op1> 2 <op2> 3;  with a unary operator before the operand the source names,
\* if any (at is 0 for none).
OperatorsTokens(src) ==
    LET operand(i) == IF src.at = i THEN << K(src.unary, UnaryLexeme[src.unary]), N(i) >>
                      ELSE << N(i) >>
    IN operand(1) \o << K(src.ops[1], BinaryLexeme[src.ops[1]]) >> \o operand(2)
       \o << K(src.ops[2], BinaryLexeme[src.ops[2]]) >> \o operand(3)
       \o << K("SEMICOLON", ";") >>

\* The declarations a source is made of, by name:
\*   break      break;         continue  continue;      return   return;
\*   return1    return 1;      print1    print 1;       print2   print 2;
\*   var        var a = 3;
\*   var1       var 1;         print     print ;        paren    print ( 1 ;
\*   assign     1 = 2;         nosemi    print 1
\*   operator   <op> 1;        with <op> the operator the source names
\* and the expressions, one to a source:
\*   assign1    a = 1;         chain     a = b = 1;     chain3   a = b = c = 1;
\*   initchain  var c = a = b = 1;        argchain  f(a = b = 1);
\*   groupchain a = (b = 1);
\* and, with <op> one of += -= *= /= ++ -- (no right-hand side after ++ and --):
\*   compound          x <op> 2;          compound_sum    x <op> 1 + 2;
\*   compound_literal  1 <op> 2;          compound_group  (x) <op> 2;
\*   compound_call     f() <op> 2;
ChunkTokens(name, op) ==
    CASE name = "break" -> << K("BREAK", "break"), K("SEMICOLON", ";") >>
      [] name = "continue" -> << K("CONTINUE", "continue"), K("SEMICOLON", ";") >>
      [] name = "return" -> << K("RETURN", "return"), K("SEMICOLON", ";") >>
      [] name = "return1" -> << K("RETURN", "return"), N(1), K("SEMICOLON", ";") >>
      [] name = "print1" -> << K("PRINT", "print"), N(1), K("SEMICOLON", ";") >>
      [] name = "print2" -> << K("PRINT", "print"), N(2), K("SEMICOLON", ";") >>
      [] name = "var" -> << K("VAR", "var"), K("IDENTIFIER", "a"), K("EQUAL", "="), N(3),
                            K("SEMICOLON", ";") >>
      [] name = "var1" -> << K("VAR", "var"), N(1), K("SEMICOLON", ";") >>
      [] name = "print" -> << K("PRINT", "print"), K("SEMICOLON", ";") >>
      [] name = "paren" -> << K("PRINT", "print"), K("LEFT_PAREN", "("), N(1),
                              K("SEMICOLON", ";") >>
      [] name = "assign" -> << N(1), K("EQUAL", "="), N(2), K("SEMICOLON", ";") >>
      [] name = "nosemi" -> << K("PRINT", "print"), N(1) >>
      [] name = "assign1" -> << K("IDENTIFIER", "a"), K("EQUAL", "="), N(1),
                                K("SEMICOLON", ";") >>
      [] name = "chain" -> << K("IDENTIFIER", "a"), K("EQUAL", "="), K("IDENTIFIER", "b"),
                              K("EQUAL", "="), N(1), K("SEMICOLON", ";") >>
      [] name = "chain3" -> << K("IDENTIFIER", "a"), K("EQUAL", "="), K("IDENTIFIER", "b"),
                               K("EQUAL", "="), K("IDENTIFIER", "c"), K("EQUAL", "="),
                               N(1), K("SEMICOLON", ";") >>
      [] name = "initchain" -> << K("VAR", "var"), K("IDENTIFIER", "c"), K("EQUAL", "="),
                                  K("IDENTIFIER", "a"), K("EQUAL", "="),
                                  K("IDENTIFIER", "b"), K("EQUAL", "="), N(1),
                                  K("SEMICOLON", ";") >>
      [] name = "argchain" -> << K("IDENTIFIER", "f"), K("LEFT_PAREN", "("),
                                 K("IDENTIFIER", "a"), K("EQUAL", "="),
                                 K("IDENTIFIER", "b"), K("EQUAL", "="), N(1),
                                 K("RIGHT_PAREN", ")"), K("SEMICOLON", ";") >>
      [] name \in CompoundChunks -> CompoundTokens(name, op)
      [] name = "groupchain" -> << K("IDENTIFIER", "a"), K("EQUAL", "="),
                                   K("LEFT_PAREN", "("), K("IDENTIFIER", "b"),
                                   K("EQUAL", "="), N(1), K("RIGHT_PAREN", ")"),
                                   K("SEMICOLON", ";") >>
      [] OTHER -> << K(op, OperatorLexeme[op]), N(1), K("SEMICOLON", ";") >>

JumpChunks == {"break", "continue", "return", "return1"}
WellFormedChunks == {"print1", "print2", "var"}
MalformedChunks == {"var1", "print", "paren", "assign", "nosemi"}
RECURSIVE Flatten(_)
Flatten(seqs) == IF Len(seqs) = 0 THEN <<>> ELSE Head(seqs) \o Flatten(Tail(seqs))

\* fun f(p1, .., pn) { }   and   f(1, .., n);  : a declaration of n parameters and
\* a call of n arguments.
ListTokens(src) ==
    LET n == src.count
        commas(item(_)) == [i \in 1..(IF n = 0 THEN 0 ELSE 2 * n - 1) |->
                               IF i % 2 = 1 THEN item((i + 1) \div 2) ELSE K("COMMA", ",")]
        parameter(i) == K("IDENTIFIER", "p" \o ToString(i))
    IN IF src.chunks = <<"parameters">>
       THEN << K("FUN", "fun"), K("IDENTIFIER", "f"), K("LEFT_PAREN", "(") >>
            \o commas(parameter)
            \o << K("RIGHT_PAREN", ")"), K("LEFT_BRACE", "{"), K("RIGHT_BRACE", "}") >>
       ELSE << K("IDENTIFIER", "f"), K("LEFT_PAREN", "(") >> \o commas(N)
            \o << K("RIGHT_PAREN", ")"), K("SEMICOLON", ";") >>

\* The lengths of the lists: short ones, and those about the two limits.
ListCounts == {0, 1, 2, MaxArguments - 1, MaxArguments, MaxArguments + 1}

AssignmentChunks == {"assign1", "chain", "chain3", "initchain", "argchain", "groupchain"}
ExpressionChunks == AssignmentChunks

\* What surrounds the declarations: nothing, or (outermost first) a block, the
\* body of a while, of a for or of a function.
\*   { .. }    while (true) { .. }    for (;;) { .. }    fun f() { .. }
Opening(c) ==
    CASE c = "block" -> << K("LEFT_BRACE", "{") >>
      [] c = "while" -> << K("WHILE", "while"), K("LEFT_PAREN", "("), K("TRUE", "true"),
                           K("RIGHT_PAREN", ")"), K("LEFT_BRACE", "{") >>
      [] c = "for" -> << K("FOR", "for"), K("LEFT_PAREN", "("), K("SEMICOLON", ";"),
                         K("SEMICOLON", ";"), K("RIGHT_PAREN", ")"), K("LEFT_BRACE", "{") >>
      [] OTHER -> << K("FUN", "fun"), K("IDENTIFIER", "f"), K("LEFT_PAREN", "("),
                     K("RIGHT_PAREN", ")"), K("LEFT_BRACE", "{") >>

Contexts ==
    { <<>>, <<"block">>, <<"while">>, <<"for">>, <<"fun">>,
      <<"while", "fun">>, <<"fun", "while">> }

\* The tokens of a source: the openings, the declarations, the closing braces.
SourceTokens(src) ==
    IF src.chunks = <<"operators">> THEN Scanned(OperatorsTokens(src)) ELSE
    IF src.op = "count" THEN Scanned(ListTokens(src)) ELSE
    Scanned(Flatten([i \in DOMAIN src.ctx |-> Opening(src.ctx[i])])
            \o Flatten([i \in DOMAIN src.chunks |-> ChunkTokens(src.chunks[i], src.op)])
            \o [i \in DOMAIN src.ctx |-> K("RIGHT_BRACE", "}")])

MaxChunks == 2

\* The sources that are parsed: one to MaxChunks declarations in a context (the
\* unclosed parenthesis, which is parsed by a second descent through the expression
\* grammar, under one opening at most, which keeps the evaluation of the parse
\* within TLC's stack), an
\* operator where an operand is expected between two print statements, and one
\* expression (op is "expr") at top level and in a function body, or one compound
\* assignment (op is its operator), and the expressions of two binary operators
\* and three operands, one of them at most under a unary operator, and the lists
\* of parameters and of arguments.
Sources ==
    LET lists == UNION { [1..n -> JumpChunks \cup WellFormedChunks \cup MalformedChunks] :
                           n \in 1..MaxChunks }
        shallow(c, l) == Len(c) < 2 \/ \A i \in DOMAIN l : l[i] # "paren"
    IN { src \in { [kind |-> "source", ctx |-> c, chunks |-> l, op |-> "-"] :
                      c \in Contexts, l \in lists } : shallow(src.ctx, src.chunks) }
       \cup { [kind |-> "source", ctx |-> c, chunks |-> <<"print1", "operator", "print2">>,
               op |-> o] : c \in Contexts, o \in DOMAIN OperatorLexeme }
       \cup { [kind |-> "source", ctx |-> c, chunks |-> <<e>>, op |-> "expr"] :
               c \in {<<>>, <<"fun">>}, e \in ExpressionChunks }
       \cup { [kind |-> "source", ctx |-> c, chunks |-> <<e>>, op |-> o] :
               c \in {<<>>, <<"fun">>}, e \in CompoundChunks, o \in DOMAIN CompoundLexeme }
       \cup { [kind |-> "source", ctx |-> <<>>, chunks |-> <<"operators">>, op |-> "ops",
               ops |-> <<o1, o2>>, unary |-> u, at |-> i] :
               o1 \in DOMAIN BinaryLexeme, o2 \in DOMAIN BinaryLexeme,
               u \in DOMAIN UnaryLexeme, i \in 0..3 }
       \cup { [kind |-> "source", ctx |-> <<>>, chunks |-> <<l>>, op |-> "count",
               count |-> n] : l \in {"parameters", "arguments"}, n \in ListCounts }

\* ------------------------------------------------------------------ the scanner
\* The source is a sequence of characters; `self.source[i]` is source[i + 1].
\* str.isdigit holds of the decimal digits and of digits such as the superscript
\* two, which int() and float() do not accept; str.isalnum of the letters and of
\* those; str.isidentifier, of one character, of the letters and the underscore.
Decimal == {"0", "1", "2", "3", "4", "5", "6", "7", "8", "9"}
Letters ==
    {"a", "b", "c", "d", "e", "f", "g", "h", "i", "j", "k", "l", "m", "n", "o", "p", "q",
     "r", "s", "t", "u", "v", "w", "x", "y", "z"}
isdigit(c) == c \in Decimal \cup {"²"}
isalnum(c) == c \in Letters \/ isdigit(c)
isidentifier(c) == c \in Letters \cup {"_"}

\* What peek gives at the end of the source.
NUL == "\\0"

KEYWORDS ==
    [and |-> "AND", break |-> "BREAK", class |-> "CLASS", continue |-> "CONTINUE",
     else |-> "ELSE", false |-> "FALSE", for |-> "FOR", fun |-> "FUN", if |-> "IF",
     nil |-> "NIL", or |-> "OR", print |-> "PRINT", return |-> "RETURN",
     super |-> "SUPER", this |-> "THIS", true |-> "TRUE", var |-> "VAR",
     while |-> "WHILE"]

\* Token, as the scanner makes it.
LexToken(type, lexeme, literal, line, column) ==
    [type |-> type, lexeme |-> lexeme, literal |-> literal, line |-> line,
     column |-> column]

\* The string of a sequence of characters.
RECURSIVE Join(_)
Join(cs) == IF Len(cs) = 0 THEN "" ELSE Head(cs) \o Join(Tail(cs))

\* self.source[from:to]
Slice(source, from, to) ==
    IF to <= from THEN <<>>
    ELSE SubSeq(source, from + 1, IF to > Len(source) THEN Len(source) ELSE to)

\* int(value) of decimal digits.
RECURSIVE int(_)
int(cs) ==
    IF Len(cs) = 0 THEN 0
    ELSE LET d == CHOOSE n \in 0..9 : ToString(n) = cs[Len(cs)]
         IN 10 * int(SubSeq(cs, 1, Len(cs) - 1)) + d

\* float(value), kept as its digits.
FloatValue(cs) == [t |-> "float", v |-> Join(cs)]

\* Scanner.__init__, up to its loop.
NewScanner(source) ==
    [source |-> source, tokens |-> <<>>, start |-> 0, current |-> 0, line |-> 1,
     reported |-> <<>>, exc |-> "ok"]

Scanner_is_at_end(s) == s.current >= Len(s.source)
Scanner_next_is_at_end(s) == s.current + 1 >= Len(s.source)
Scanner_peek(s) == IF Scanner_is_at_end(s) THEN NUL ELSE s.source[s.current + 1]
Scanner_peek_next(s) == IF Scanner_next_is_at_end(s) THEN NUL ELSE s.source[s.current + 2]

\* Scanner.advance; the character it returns was Scanner_peek(s).
Scanner_advance(s) == [s EXCEPT !.current = @ + 1]

\* Scanner.match, the test: where it holds the caller goes on from
\* Scanner_advance(s).
Scanner_match(s, expected) == ~Scanner_is_at_end(s) /\ s.source[s.current + 1] = expected

\* Scanner.scan_error: the report, and the exception if fatal.
Scanner_scan_error(s, msg, fatal) ==
    [s EXCEPT !.reported = Append(@, [msg |-> msg, line |-> s.line, column |-> s.start]),
              !.exc = IF fatal THEN "ScannerError" ELSE @]

\* Scanner.add_token: the column is self.start.
Scanner_add_token(s, token_type, literal) ==
    LET text == Join(Slice(s.source, s.start, s.current))
    IN [s EXCEPT !.tokens = Append(@, LexToken(token_type, text, literal, s.line, s.start))]

\* `while self.peek != '"' and not self.is_at_end` of Scanner.string
RECURSIVE Scanner_string_loop(_)
Scanner_string_loop(s) ==
    IF Scanner_peek(s) # "\"" /\ ~Scanner_is_at_end(s)
    THEN Scanner_string_loop(
             Scanner_advance(IF Scanner_peek(s) = "\n" THEN [s EXCEPT !.line = @ + 1] ELSE s))
    ELSE s

\* Scanner.string
Scanner_string(s) ==
    LET end == Scanner_string_loop(s)
        closed == Scanner_advance(end)
        value == Join(Slice(s.source, closed.start + 1, closed.current - 1))
    IN IF Scanner_is_at_end(end) THEN Scanner_scan_error(end, "Unterminated string", TRUE)
       ELSE Scanner_add_token(closed, "STRING", StrValue(value))

\* `while self.peek.isdigit(): self.advance()`
RECURSIVE Scanner_digits(_)
Scanner_digits(s) ==
    IF isdigit(Scanner_peek(s)) THEN Scanner_digits(Scanner_advance(s)) ELSE s

\* Scanner.number: int and float raise ValueError on a digit that is not decimal.
Scanner_number(s) ==
    LET whole == Scanner_digits(s)
        point == IF Scanner_peek(whole) = "." /\ isdigit(Scanner_peek_next(whole))
                 THEN Scanner_advance(whole) ELSE whole
        end == Scanner_digits(point)
        value == Slice(s.source, end.start, end.current)
    IN IF \E i \in DOMAIN value : value[i] \notin Decimal \cup {"."}
       THEN [end EXCEPT !.exc = "ValueError"]
       ELSE IF \E i \in DOMAIN value : value[i] = "."
       THEN Scanner_add_token(end, "NUMBER", FloatValue(value))
       ELSE Scanner_add_token(end, "NUMBER", NumValue(int(value)))

\* `while self.peek.isalnum() or self.peek == '_': self.advance()`
RECURSIVE Scanner_word(_)
Scanner_word(s) ==
    IF isalnum(Scanner_peek(s)) \/ Scanner_peek(s) = "_"
    THEN Scanner_word(Scanner_advance(s)) ELSE s

\* Scanner.identifier
Scanner_identifier(s) ==
    LET end == Scanner_word(s)
        value == Join(Slice(s.source, end.start, end.current))
    IN IF value \in DOMAIN KEYWORDS THEN Scanner_add_token(end, KEYWORDS[value], NilValue)
       ELSE Scanner_add_token(end, "IDENTIFIER", NilValue)

\* `while self.peek != '\n' and not self.is_at_end: self.advance()` of a comment
RECURSIVE Scanner_comment(_)
Scanner_comment(s) ==
    IF Scanner_peek(s) # "\n" /\ ~Scanner_is_at_end(s)
    THEN Scanner_comment(Scanner_advance(s)) ELSE s

\* The tokens of one character, and those a following character extends.
SingleCharacter ==
    [c \in {"(", ")", "{", "}", ",", "?", ":", ".", ";"} |->
        CASE c = "(" -> "LEFT_PAREN" [] c = ")" -> "RIGHT_PAREN"
          [] c = "{" -> "LEFT_BRACE" [] c = "}" -> "RIGHT_BRACE"
          [] c = "," -> "COMMA" [] c = "?" -> "QUESTION" [] c = ":" -> "COLON"
          [] c = "." -> "DOT" [] OTHER -> "SEMICOLON"]

WithEqual ==
    [c \in {"-", "+", "*", "!", "=", "<", ">"} |->
        CASE c = "-" -> <<"MINUS", "MINUS_EQUAL">> [] c = "+" -> <<"PLUS", "PLUS_EQUAL">>
          [] c = "*" -> <<"STAR", "STAR_EQUAL">> [] c = "!" -> <<"BANG", "BANG_EQUAL">>
          [] c = "=" -> <<"EQUAL", "EQUAL_EQUAL">> [] c = "<" -> <<"LESS", "LESS_EQUAL">>
          [] OTHER -> <<"GREATER", "GREATER_EQUAL">>]

Doubled == [c \in {"-", "+"} |-> IF c = "-" THEN "MINUS_MINUS" ELSE "PLUS_PLUS"]

\* Scanner.scan_token
Scanner_scan_token(s) ==
    LET c == Scanner_peek(s)
        a == Scanner_advance(s)
        b == Scanner_advance(a)
    IN CASE c \in DOMAIN SingleCharacter -> Scanner_add_token(a, SingleCharacter[c], NilValue)
         [] c \in DOMAIN WithEqual ->
                IF Scanner_match(a, "=") THEN Scanner_add_token(b, WithEqual[c][2], NilValue)
                ELSE IF c \in DOMAIN Doubled /\ Scanner_match(a, c)
                THEN Scanner_add_token(b, Doubled[c], NilValue)
                ELSE Scanner_add_token(a, WithEqual[c][1], NilValue)
         [] c = "/" ->
                IF Scanner_match(a, "/") THEN Scanner_comment(b)
                ELSE IF Scanner_match(a, "=") THEN Scanner_add_token(b, "SLASH_EQUAL", NilValue)
                ELSE Scanner_add_token(a, "SLASH", NilValue)
         [] c \in {" ", "\t", "\r"} -> a
         [] c = "\n" -> [a EXCEPT !.line = @ + 1]
         [] c = "\"" -> Scanner_string(a)
         [] isdigit(c) -> Scanner_number(a)
         [] isidentifier(c) -> Scanner_identifier(a)
         [] OTHER -> Scanner_scan_error(a, "Unexpected character " \o c, FALSE)

\* The characters the texts are made of: a quote, a newline, a space, a decimal
\* digit and one that is not decimal, a letter, the point, the slash, the equal
\* sign and a character that begins no token.
Alphabet == {"\"", "\n", " ", "1", "²", "a", ".", "/", "=", "@"}

MaxLen == 4

\* Some longer texts.
Samples ==
    { << "v", "a", "r", " ", "x", " ", "=", " ", "\"", "a", "\n", "b", "\"", ";", "\n", "p", "r", "i", "n", "t", " ", "x", ";" >>,
      << "/", "/", " ", "c", "\n", "1", ".", "5", " ", ">", "=", " ", "2" >>,
      << "x", " ", "+", "=", " ", "1", ";", "\n", "y", "-", "-", ";" >>,
      << "w", "h", "i", "l", "e", " ", "(", "a", "_", "1", " ", "!", "=", " ", "n", "i", "l", ")", " ", "{", " ", "f", "(", "a", ",", " ", "b", ")", ";", " ", "}" >>,
      << "p", "r", "i", "n", "t", " ", "\"", "s", "\"", " ", "+", " ", "@", " ", "\"", "t" >> }

\* The texts that are scanned: all of MaxLen characters or fewer, and the samples.
Texts ==
    { [kind |-> "text", source |-> t] :
        t \in UNION { [1..n -> Alphabet] : n \in 0..MaxLen } \cup Samples }

\* ------------------------------------------------------------------ the runs
\* Where a program stands: k nested blocks around it, and those inside the body of
\* a function that is then called.
\*   { { <statements> } }            fun main() { { <statements> } }  main();
RECURSIVE Wrap(_, _)
Wrap(stmts, k) == IF k = 0 THEN stmts ELSE << Block(Wrap(stmts, k - 1)) >>

InFunction(stmts) ==
    << Fun("main", 900, <<>>, stmts), Expression(Call(V("main", 950), <<>>)) >>

Kinds ==
    {"local", "shadow", "counter", "fib", "calls", "forcontinue",
     "breakwhile", "breakfor", "breaknested", "scope"}

MaxArgs == 3

\* The programs that are run: kind and the kind's parameters a, b, op, the number
\* nest of blocks around the statements and whether they are a function's body (the
\* programs of one expression over two operands are run at top level only).
Programs ==
    LET plain == [kind : Kinds, a : {0}, b : {0}, op : {"-"}]
        loop == [kind : {"loop"}, a : LoopShapes, b : {0}, op : {"-"}]
        truth == [kind : {"truth"}, a : 1..OperandCount, b : {0}, op : {"-"}]
        logic == [kind : {"logic"}, a : 1..OperandCount, b : 1..OperandCount,
                  op : {"OR", "AND"}]
        arity == [kind : {"arity"}, a : 1..Len(Callees), b : 0..MaxArgs, op : {"-"}]
        order == [kind : {"order"}, a : 1..Len(OrderCallees), b : 0..MaxArgs, op : {"-"}]
        fail == [kind : {"fail"}, a : 1..Len(FailStatements), b : {0}, op : {"-"}]
        reserr == [kind : {"reserr"}, a : 1..Len(ResolverErrorStatements), b : {0},
                   op : {"-"}]
        binary == [kind : {"binary"}, a : 1..OperandCount, b : 1..OperandCount,
                   op : NumericOps \cup PlusOps \cup {"NEG"}]
        cond == [kind : {"cond"}, a : 1..Len(ConditionalExpressions), b : {0}, op : {"-"}]
        jump == [kind : {"jump"}, a : 1..4, b : {0}, op : {"-"}]
        operands == [kind : {"operands"}, a : 1..5, b : {0}, op : {"-"}]
        div == [kind : {"div"}, a : -MaxInt..MaxInt, b : -MaxInt..MaxInt,
                op : {"SLASH", "SLASH_EQUAL"}]
    IN { [kind |-> c.kind, a |-> c.a, b |-> c.b, op |-> c.op,
          nest |-> n, infun |-> f] :
            c \in plain \cup loop \cup truth \cup logic \cup arity \cup order \cup fail
                   \cup reserr \cup cond \cup jump \cup operands,
            n \in 0..MaxNest, f \in BOOLEAN }
       \cup { [kind |-> c.kind, a |-> c.a, b |-> c.b, op |-> c.op,
               nest |-> 0, infun |-> FALSE] : c \in binary \cup div }

Core(p) ==
    CASE p.kind = "local" -> LocalProgram
      [] p.kind = "shadow" -> ShadowProgram
      [] p.kind = "counter" -> CounterProgram
      [] p.kind = "fib" -> FibProgram
      [] p.kind = "calls" -> CallsProgram
      [] p.kind = "forcontinue" -> ForContinueProgram
      [] p.kind = "breakwhile" -> BreakWhileProgram
      [] p.kind = "breakfor" -> BreakForProgram
      [] p.kind = "breaknested" -> BreakNestedProgram
      [] p.kind = "loop" -> LoopProgram(p.a)
      [] p.kind = "truth" -> TruthProgram(p.a)
      [] p.kind = "logic" -> LogicProgram(p.op, p.a, p.b)
      [] p.kind = "order" -> OrderProgram(p.a, p.b)
      [] p.kind = "fail" -> FailProgram(p.a)
      [] p.kind = "scope" -> ScopeProgram
      [] p.kind = "reserr" -> ResolverErrorProgram(p.a)
      [] p.kind = "binary" -> BinaryProgram(p.op, p.a, p.b)
      [] p.kind = "div" -> DivProgram(p.op, p.a, p.b)
      [] p.kind = "cond" -> ConditionalProgram(p.a)
      [] p.kind = "jump" -> JumpInFunctionProgram(p.a)
      [] p.kind = "operands" -> OperandsProgram(p.a)
      [] OTHER -> ArityProgram(p.a, p.b)

\* The statement list handed to Interpreter.interpret.
Source(p) ==
    IF p.infun THEN InFunction(Wrap(Core(p), p.nest)) ELSE Wrap(Core(p), p.nest)

VARIABLES program, pc, index, interp, resolver, has_errors, error, parser, statements,
          scanner

vars ==
    <<program, pc, index, interp, resolver, has_errors, error, parser, statements, scanner>>

\* Interpreter.__init__, before interpret is called on the parsed program.
Init ==
    /\ program \in Programs
    /\ pc = "start"
    /\ index = 0
    /\ \E clock \in 0..MaxClock : interp = Interpreter_init(clock)
    /\ resolver = NewResolver
    /\ has_errors = FALSE
    /\ error = [exc |-> "ok", msg |-> ""]
    /\ parser = Parser_init(Scanned(<<>>))
    /\ statements = <<>>
    /\ scanner = NewScanner(<<>>)

Caught == {"Interpreter.RuntimeError", "Environment.RuntimeError", "Resolver.RuntimeError"}

\* An interpret whose loop goes on to the next statement after a caught error.
After_next_statement(exc, next) ==
    IF exc = "ok" \/ exc \in Caught THEN next ELSE "raised"

\* What `except (...) as exc` of Interpreter.interpret makes of the way a step ended:
\* on to the next step, done with has_errors set, or the exception leaves interpret.
After(exc, next) ==
    IF exc = "ok" THEN next ELSE IF exc \in Caught THEN "done" ELSE "raised"

\* interpret, first half: has_errors = False, then the resolver over the program.
Resolve ==
    /\ pc = "start"
    /\ LET rs == Resolver_statements(NewResolver, Source(program))
       IN /\ resolver' = rs
          /\ interp' = [interp EXCEPT !.locals = rs.locals]
          /\ has_errors' = (rs.exc \in Caught)
          /\ error' = [exc |-> rs.exc, msg |-> rs.msg]
          /\ pc' = After(rs.exc, "run")
    /\ index' = 1
    /\ UNCHANGED <<program, parser, statements, scanner>>

\* interpret, one turn of `for statement in statements: self.eval(statement)`.
Execute ==
    /\ pc = "run"
    /\ index <= Len(Source(program))
    /\ LET r == eval(interp, Source(program)[index])
       IN /\ interp' = [r EXCEPT !.exc = "ok", !.msg = ""]
          /\ has_errors' = (r.exc \in Caught)
          /\ error' = [exc |-> r.exc, msg |-> r.msg]
          /\ pc' = After(r.exc, "run")
    /\ index' = index + 1
    /\ UNCHANGED <<program, resolver, parser, statements, scanner>>

\* interpret returns once the statements are used up.
Finish ==
    /\ pc = "run"
    /\ index > Len(Source(program))
    /\ pc' = "done"
    /\ UNCHANGED <<program, index, interp, resolver, has_errors, error, parser, statements,
                   scanner>>

Next == Resolve \/ Execute \/ Finish

Spec == Init /\ [][Next]_vars

\* Parser.__init__ on the tokens of a source, before parse is called.
ParserInit ==
    /\ program \in Sources
    /\ pc = "parse"
    /\ parser = Parser_init(SourceTokens(program))
    /\ statements = <<>>
    /\ scanner = NewScanner(<<>>)
    /\ index = 0
    /\ interp = Interpreter_init(0)
    /\ resolver = NewResolver
    /\ has_errors = FALSE
    /\ error = [exc |-> "ok", msg |-> ""]

\* Parser.parse, one turn of `while not self.is_at_end`: a declaration, appended
\* to the statements `if stmt`; an exception that declaration does not catch
\* leaves parse.
Declaration ==
    /\ pc = "parse"
    /\ ~Parser_is_at_end(parser)
    /\ LET r == Parser_rule(parser, "declaration")
       IN /\ parser' = r
          /\ statements' = IF r.exc = "ok" /\ r.v.type # "None"
                           THEN Append(statements, r.v) ELSE statements
          /\ pc' = IF r.exc = "ok" THEN "parse" ELSE "raised"
    /\ UNCHANGED <<program, index, interp, resolver, has_errors, error, scanner>>

\* parse returns the statements at the EOF token.
EndOfParse ==
    /\ pc = "parse"
    /\ Parser_is_at_end(parser)
    /\ pc' = "parsed"
    /\ UNCHANGED <<program, index, interp, resolver, has_errors, error, parser, statements,
                   scanner>>

ParserNext == Declaration \/ EndOfParse

ParserSpec == ParserInit /\ [][ParserNext]_vars

\* Scanner.__init__ on a text, before its loop.
ScannerInit ==
    /\ program \in Texts
    /\ pc = "scan"
    /\ scanner = NewScanner(program.source)
    /\ parser = Parser_init(Scanned(<<>>))
    /\ statements = <<>>
    /\ index = 0
    /\ interp = Interpreter_init(0)
    /\ resolver = NewResolver
    /\ has_errors = FALSE
    /\ error = [exc |-> "ok", msg |-> ""]

\* One turn of `while not self.is_at_end`: start is set and scan_token called; an
\* exception leaves __init__ and no scanner is made.
ScanToken ==
    /\ pc = "scan"
    /\ ~Scanner_is_at_end(scanner)
    /\ LET s == Scanner_scan_token([scanner EXCEPT !.start = scanner.current])
       IN /\ scanner' = s
          /\ pc' = IF s.exc = "ok" THEN "scan" ELSE "raised"
    /\ UNCHANGED <<program, index, interp, resolver, has_errors, error, parser, statements>>

\* After the loop the EOF token is appended.
EndOfScan ==
    /\ pc = "scan"
    /\ Scanner_is_at_end(scanner)
    /\ scanner' = [scanner EXCEPT
                      !.tokens = Append(@, LexToken("EOF", "", NilValue, scanner.line, -1))]
    /\ pc' = "scanned"
    /\ UNCHANGED <<program, index, interp, resolver, has_errors, error, parser, statements>>

ScannerNext == ScanToken \/ EndOfScan

ScannerSpec == ScannerInit /\ [][ScannerNext]_vars

\* ------------------------------------------------------------------ properties
\* The history of the run, and the positions in it of some kinds of step.
Trace == interp.trace

Resolved == {i \in DOMAIN Trace : Trace[i].ev \in {"get_at", "assign_at"}}

Calls == {i \in DOMAIN Trace : Trace[i].ev = "call"}

Conds(k) == {i \in DOMAIN Trace : Trace[i].ev = "cond" /\ Trace[i].loop = k}

TopLevel == program.nest = 0 /\ ~program.infun

\* C1: every use of a name that the resolver recorded with depth d is evaluated in
\* an environment from which exactly d parent links lead to a frame that binds the
\* name itself, so the lookup neither fails nor ends in the global frame.
C1_ResolvedDepthReachesBinder ==
    \A i \in Resolved :
        /\ Trace[i].binds
        /\ Trace[i].found = Trace[i].frame
        /\ Trace[i].frame > 1

\* C2: with the same name declared in two nested local scopes, every resolved use
\* starts at the frame of the innermost binding (distance counted from the
\* innermost scope), the inner block reads and changes only the inner binding,
\* and the outer one is unchanged afterwards: the program prints 3, then 1.
C2_InnermostBinding ==
    program.kind = "shadow" =>
        /\ \A i \in Resolved : Trace[i].frame = Trace[i].innermost
        /\ pc = "done" => ~has_errors /\ interp.out = <<"3", "1">>

\* C3: the n-th call of a counter closure returns n, whether or not the enclosing
\* call has returned, a second closure counts on its own, and the program ends
\* without error having printed 1, 2, 1, 3.
C3_CounterClosure ==
    program.kind = "counter" =>
        /\ \A i \in Calls :
              Trace[i].name = "inc" =>
                  LET n == Cardinality({j \in Calls : /\ j <= i
                                                       /\ Trace[j].name = "inc"
                                                       /\ Trace[j].closure = Trace[i].closure})
                  IN \E j \in DOMAIN Trace :
                        /\ j > i
                        /\ Trace[j].ev = "call_end"
                        /\ Trace[j].frame = Trace[i].frame
                        /\ Trace[j].by = "return"
                        /\ ValEq(Trace[j].value, NumValue(n))
        /\ pc = "done" => ~has_errors /\ interp.out = <<"1", "2", "1", "3">>

RECURSIVE Fib(_)
Fib(n) == IF n <= 1 THEN n ELSE Fib(n - 2) + Fib(n - 1)

C5_ContinueRunsOwnIncrement ==
    program.kind = "forcontinue" =>
        /\ \A h \in DOMAIN Trace :
              Trace[h].ev = "handler" =>
                  \E w \in DOMAIN Trace, d \in DOMAIN Trace :
                      /\ d < h /\ h < w
                      /\ Trace[d].ev = "define" /\ Trace[d].column = 31
                      /\ Trace[w].ev \in {"assign_at", "global_assign"}
                      /\ Trace[w].key = <<"Assign", "a", 45>>
                      /\ Trace[w].found = Trace[d].env
                      /\ \A c \in Conds(Trace[h].loop) : ~(h < c /\ c < w)
        /\ \A k \in 1..interp.nloops : \A p, q \in Conds(k) :
              (p < q /\ \A c \in Conds(k) : ~(p < c /\ c < q)) =>
                  Cardinality({x \in p..q : /\ Trace[x].ev = "exec"
                                             /\ Trace[x].type = "ForExpression"
                                             /\ Trace[x].loop = k}) = 1

\* Whether step i of the history belongs to loop activation k.
OfLoop(i, k) ==
    /\ Trace[i].ev \in {"cond", "handler", "exit", "exec"}
    /\ Trace[i].loop = k

\* C6: a break that executes in a loop body is followed at once by the exit of the
\* nearest enclosing loop, after which nothing of that loop runs (no statement of
\* the body, no increment, no condition); a loop around it is not exited by that
\* break and evaluates its condition again; a condition is followed by the body or
\* by the exit.
C6_BreakExitsNearestLoop ==
    /\ \A i \in DOMAIN Trace :
          (Trace[i].ev = "exec" /\ Trace[i].type = "Break" /\ Trace[i].loop > 0) =>
              /\ i < Len(Trace)
              /\ Trace[i + 1].ev = "exit"
              /\ Trace[i + 1].loop = Trace[i].loop
              /\ Trace[i + 1].by = "break"
              /\ \A m \in DOMAIN Trace : m > i + 1 => ~OfLoop(m, Trace[i].loop)
    /\ \A j \in DOMAIN Trace :
          (Trace[j].ev = "exit" /\ Trace[j].by = "break" /\ Trace[j].outer > 0) =>
              \A m \in DOMAIN Trace :
                  (m > j /\ Trace[m].ev = "exit" /\ Trace[m].loop = Trace[j].outer) =>
                      \E c \in Conds(Trace[j].outer) : j < c /\ c < m
    /\ \A c \in DOMAIN Trace :
          (Trace[c].ev = "cond" /\ c < Len(Trace)) =>
              \/ Trace[c + 1].ev = "exec" /\ Trace[c + 1].loop = Trace[c].loop
              \/ /\ Trace[c + 1].ev = "exit"
                 /\ Trace[c + 1].loop = Trace[c].loop
                 /\ Trace[c + 1].by = "cond"

\* The inner loop of the nested program was left by break and the loop around it
\* then evaluated its condition again; the program printed 2.
C6_Witness ==
    /\ program.kind = "breaknested" /\ pc = "done" /\ interp.out = <<"2">>
    /\ \E j \in DOMAIN Trace :
          /\ Trace[j].ev = "exit" /\ Trace[j].by = "break" /\ Trace[j].outer > 0
          /\ \E c \in Conds(Trace[j].outer) : c > j /\ Truthy(Trace[c].value)

\* C7: a while loop, or a for loop without increment, whose body is any statement
\* of the grammar is resolved and run: no failure other than a language-level
\* runtime error, and at top level the loop counts to 2 and ends.
C7_AnyLoopBodyRuns ==
    program.kind = "loop" =>
        /\ pc # "raised"
        /\ (pc = "done" /\ TopLevel) => ~has_errors /\ interp.out = <<"2">>

\* The values that count as false in Python: None, False, 0 and "".
FalseObject(val) ==
    \/ val.t = "nil"
    \/ val.t = "bool" /\ ~val.v
    \/ val.t = "num" /\ val.v = 0
    \/ val.t = "str" /\ val.v = ""

\* What the truthiness program prints for an operand that is truthy or not.
TruthOut(truthy) ==
    IF truthy THEN <<"1", "1", "false", "1">> ELSE <<"2", "2", "true", "0">>

\* C8 as stated: nil and false are the only falsey values (0 and "" are truthy),
\* and that rule decides if, while, ?:, ! and the short-circuit of and/or.
C8_OnlyNilAndFalseFalsey ==
    /\ (program.kind = "truth" /\ pc = "done" /\ ~has_errors) =>
          interp.out = TruthOut(is_truthy(OperandValue(program.a)))
    /\ \A i \in DOMAIN Trace :
          Trace[i].ev = "logical" =>
              Trace[i].right_evaluated =
                  IF Trace[i].operator = "OR" THEN ~is_truthy(Trace[i].left)
                  ELSE is_truthy(Trace[i].left)

\* C8: nil, false, the number 0 and the empty string are the falsey values and
\* every other value is truthy; that one rule decides the branch of if, the
\* continuation of while, the branch of ?:, the result of ! and the short-circuit
\* of and/or.
C8_HostTruthiness ==
    /\ (program.kind = "truth" /\ pc = "done" /\ ~has_errors) =>
          interp.out = TruthOut(~FalseObject(OperandValue(program.a)))
    /\ \A i \in DOMAIN Trace :
          Trace[i].ev = "logical" =>
              Trace[i].right_evaluated =
                  IF Trace[i].operator = "OR" THEN FalseObject(Trace[i].left)
                  ELSE ~FalseObject(Trace[i].left)
    /\ \A c \in DOMAIN Trace :
          (Trace[c].ev = "cond" /\ c < Len(Trace)) =>
              (Trace[c + 1].ev = "exit") = FalseObject(Trace[c].value)

\* The truthiness program ran at top level on the number 0 and took the falsey
\* side everywhere.
C8_Witness ==
    /\ program.kind = "truth" /\ TopLevel /\ pc = "done" /\ ~has_errors
    /\ ValEq(OperandValue(program.a), NumValue(0))
    /\ interp.out = <<"2", "2", "true", "0">>

\* The assignments to the name x (the left operand of the logic program) or y (the
\* right one) before step i of the history.
Writes(lexeme, i) ==
    {w \in 1..i : /\ Trace[w].ev \in {"assign_at", "global_assign"}
                  /\ Trace[w].lexeme = lexeme}

\* C9 as stated, falsey being nil and false: the right operand of or is evaluated
\* iff the left is falsey, that of and iff the left is truthy; the left operand is
\* evaluated once and the value is the deciding operand's.
C9_ShortCircuitNilFalse ==
    program.kind = "logic" =>
        \A i \in DOMAIN Trace :
            Trace[i].ev = "logical" =>
                LET right == IF program.op = "OR"
                             THEN ~is_truthy(OperandValue(program.a))
                             ELSE is_truthy(OperandValue(program.a))
                IN /\ Trace[i].right_evaluated = right
                   /\ Cardinality(Writes("x", i)) = 1
                   /\ Cardinality(Writes("y", i)) = IF right THEN 1 ELSE 0
                   /\ ValEq(Trace[i].value, IF right THEN OperandValue(program.b)
                                            ELSE OperandValue(program.a))

\* C9: with nil, false, 0 and "" as the falsey values, the right operand of or is
\* evaluated iff the left is falsey, that of and iff the left is truthy; the left
\* operand is evaluated exactly once and the value of the expression is the value
\* of the deciding operand itself.
C9_ShortCircuit ==
    program.kind = "logic" =>
        /\ \A i \in DOMAIN Trace :
              Trace[i].ev = "logical" =>
                  LET right == IF program.op = "OR"
                               THEN FalseObject(OperandValue(program.a))
                               ELSE ~FalseObject(OperandValue(program.a))
                  IN /\ Trace[i].right_evaluated = right
                     /\ Cardinality(Writes("x", i)) = 1
                     /\ Cardinality(Writes("y", i)) = IF right THEN 1 ELSE 0
                     /\ ValEq(Trace[i].value, IF right THEN OperandValue(program.b)
                                              ELSE OperandValue(program.a))
        /\ (pc = "done" /\ ~has_errors) =>
              \E i \in DOMAIN Trace : Trace[i].ev = "logical"

\* `(x = 0) or (y = "s")` ran at top level: both operands were evaluated and the
\* value is the right operand's.
C9_Witness ==
    /\ program.kind = "logic" /\ program.op = "OR" /\ TopLevel /\ pc = "done"
    /\ ValEq(OperandValue(program.a), NumValue(0))
    /\ ValEq(OperandValue(program.b), StrValue("s"))
    /\ interp.out = <<"0", "s", "s">>

\* C10: a call whose number of arguments differs from the callable's arity raises
\* the arity error before the body or the host function runs and has_errors is
\* set; a call with as many arguments as the arity raises no arity error.
C10_ArityChecked ==
    /\ \A i \in DOMAIN Trace :
          Trace[i].ev = "arity" =>
              /\ Trace[i].arity # Trace[i].got
              /\ i = Len(Trace)
              /\ pc = "done" /\ has_errors
              /\ error.exc = "Interpreter.RuntimeError"
    /\ \A i \in Calls : Len(Trace[i].arguments) = Len(Trace[i].params)
    /\ \A i \in DOMAIN Trace :
          Trace[i].ev = "host" =>
              Len(Trace[i].arguments) = IF Trace[i].name = "clock" THEN 0 ELSE 1
    /\ (program.kind = "arity" /\ TopLevel /\ pc = "done") =>
          IF program.b # CalleeArity[program.a]
          THEN /\ has_errors
               /\ error.exc = "Interpreter.RuntimeError"
               /\ Trace[Len(Trace)].ev = "arity"
               /\ interp.out = <<>>
          ELSE /\ ~has_errors
               /\ interp.out = IF Callees[program.a] \in {"clock", "echo"}
                               THEN <<"after">> ELSE <<"body", "after">>

\* f2, of arity 2, was called with one argument at top level: the run ended with
\* the arity error and nothing printed.
C10_Witness ==
    /\ program.kind = "arity" /\ Callees[program.a] = "f2" /\ program.b = 1
    /\ TopLevel /\ pc = "done" /\ has_errors
    /\ Trace[Len(Trace)].ev = "arity"
    /\ interp.out = <<>>

\* What the arguments arg(1), .., arg(k) print when each is evaluated once, from
\* left to right.
ArgumentsPrinted(k) == [i \in 1..k |-> ToString(i)]

\* C11: a call evaluates the callee first; when the callee's value is not callable
\* the call fails with 'Can only call functions and classes.' and no argument has
\* been evaluated; otherwise each argument is evaluated once, from left to right,
\* and only then the arity is checked and the body run.  The program of the
\* "order" kind prints "callee" when the callee expression is evaluated, i when
\* argument i is, and "body" when the called function runs.
C11_CalleeThenArgumentsThenBody ==
    (program.kind = "order" /\ TopLevel /\ pc = "done") =>
        IF OrderCallees[program.a] = "one"
        THEN /\ has_errors
             /\ error.msg = "Can only call functions and classes."
             /\ interp.out = <<"callee">>
        ELSE IF program.b # 2
        THEN /\ has_errors
             /\ error.msg = "Call expected other number of arguments"
             /\ interp.out = <<"callee">> \o ArgumentsPrinted(program.b)
        ELSE /\ ~has_errors
             /\ interp.out = <<"callee">> \o ArgumentsPrinted(2) \o <<"body", "after">>

\* pick()(arg(1), arg(2)) has run at top level: callee, both arguments in order,
\* then the body.
C11_Witness ==
    /\ program.kind = "order" /\ OrderCallees[program.a] = "pick" /\ program.b = 2
    /\ TopLevel /\ pc = "done" /\ ~has_errors
    /\ interp.out = <<"callee", "1", "2", "body", "after">>

\* The message of the runtime error statement i of the "fail" programs raises.
FailMessage ==
    << "Operands must be numbers", "Divide by zero",
       "Call expected other number of arguments",
       "Can only call functions and classes.", "Undefined variable" >>

\* C12: a runtime error raised while a top-level statement executes ends interpret:
\* no later top-level statement runs, one error is reported and has_errors is true
\* when interpret returns; when every statement completes, has_errors is false.
\* Whatever the program, has_errors is set only in the state interpret returns in,
\* with the one error that was caught; in the "fail" programs the statement after
\* the failing one never prints.
C12_RuntimeErrorStopsInterpret ==
    /\ has_errors => (pc = "done" /\ error.exc \in Caught)
    /\ (pc = "done" /\ ~has_errors) =>
          (error.exc = "ok" /\ index = Len(Source(program)) + 1)
    /\ (program.kind = "fail" /\ pc = "done") =>
          IF program.a <= Len(FailMessage)
          THEN /\ has_errors
               /\ error.msg = FailMessage[program.a]
               /\ interp.out = <<"before">>
               /\ TopLevel => index = 3
          ELSE /\ ~has_errors
               /\ interp.out = <<"before", "1", "after">>
    /\ (program.kind = "fail" /\ pc = "run" /\ TopLevel /\ index = 3) =>
          program.a > Len(FailMessage)

\* The division by zero in the second of three top-level statements ended the run.
C12_Witness ==
    /\ program.kind = "fail" /\ program.a = 2 /\ TopLevel
    /\ pc = "done" /\ has_errors /\ index = 3
    /\ error.msg = "Divide by zero"
    /\ interp.out = <<"before">>

\* The names defined so far in a frame other than the globals, and in the globals.
DefinedIn(local) ==
    {Trace[i].lexeme : i \in {j \in DOMAIN Trace :
                                 Trace[j].ev = "define" /\ ((Trace[j].env # 1) = local)}}

\* C13: when a block or a function call ends, in whichever way (normally, by a
\* runtime error, by a break, continue or return passing through), the current
\* environment is again the one it was before the block was entered; hence it is
\* the global environment whenever interpret stands between two statements or
\* has returned, and a name declared only inside a block is not bound there.
C13_EnvironmentRestored ==
    /\ \A i \in DOMAIN interp.blocks :
          interp.blocks[i].environment = interp.blocks[i].previous
    /\ \A i \in DOMAIN Trace :
          Trace[i].ev = "call_end" =>
              \E j \in 1..(i - 1) : /\ Trace[j].ev = "call"
                                    /\ Trace[j].frame = Trace[i].frame
                                    /\ Trace[j].caller = Trace[i].environment
    /\ interp.environment = 1
    /\ \A name \in DefinedIn(TRUE) \ DefinedIn(FALSE) :
          name \notin DOMAIN interp.heap[1].values
    /\ (program.kind = "scope" /\ TopLevel /\ pc = "done") =>
          /\ "b" \notin DOMAIN interp.heap[1].values
          /\ interp.heap[1].values["a"] = NumValue(11)
          /\ interp.out = <<"11">>

\* A run ended with a runtime error that passed through a block, and the
\* environment is the global one.
C13_Witness ==
    /\ pc = "done" /\ has_errors
    /\ \E i \in DOMAIN interp.blocks :
          /\ interp.blocks[i].by \in Caught
          /\ interp.blocks[i].entered # interp.blocks[i].previous
    /\ interp.environment = 1

\* The message of the resolver error statement i of the "reserr" programs raises.
ResolverMessage ==
    << "Can't read local variable in its own initializer.",
       "Already a variable with this name in this scope.",
       "Can't return from top-level code." >>

\* Nothing of the program has been executed: no step in the history, nothing
\* printed, and the globals hold the two builtins only.
NothingExecuted ==
    /\ Trace = <<>>
    /\ interp.out = <<>>
    /\ Len(interp.heap) = 1
    /\ DOMAIN interp.heap[1].values = {"clock", "echo"}

\* C14: an error found by the resolver is fatal to the run: when a local variable
\* is read in its own initializer, a name is declared twice in one local scope, or
\* a return stands outside every function, interpret executes no statement at all
\* (nothing is defined, nothing printed) and returns with has_errors set.  In the
\* "reserr" programs the statements before the offending one would define g and
\* print "before"; `return 1;` is an error unless the program is a function's body.
C14_ResolverErrorRunsNothing ==
    /\ error.exc = "Resolver.RuntimeError" =>
          (pc = "done" /\ has_errors /\ index = 1 /\ NothingExecuted)
    /\ (program.kind = "reserr" /\ pc # "start") =>
          IF program.a < 3 \/ ~program.infun
          THEN /\ error.exc = "Resolver.RuntimeError"
               /\ error.msg = ResolverMessage[program.a]
          ELSE error.exc # "Resolver.RuntimeError"
    /\ (program.kind = "reserr" /\ program.a = 3 /\ program.infun /\ pc = "done") =>
          (~has_errors /\ interp.out = <<"before">>)

\* `var g = 1; print "before"; { var a = a; }` was handed to interpret, which
\* returned with has_errors set and nothing executed.
C14_Witness ==
    /\ program.kind = "reserr" /\ program.a = 1 /\ TopLevel
    /\ pc = "done" /\ has_errors
    /\ error.msg = "Can't read local variable in its own initializer."
    /\ NothingExecuted

\* The operands of the expression a "binary" program evaluates.
LeftValue == OperandValue(program.a)
RightValue == IF program.op \in StepOps THEN NumValue(1) ELSE OperandValue(program.b)
OperandValues == IF program.op = "NEG" THEN <<LeftValue>> ELSE <<LeftValue, RightValue>>

TypeErrors == {"Operand must be a number", "Operands must be numbers"}

\* C15: the operators -, *, /, <, <=, >, >=, == and != (with their compound forms)
\* and unary minus raise 'Operands must be numbers' ('Operand must be a number' for
\* unary minus) when an operand is not a number, be it a string, a boolean, nil or
\* a callable, and raise no type error when all operands are numbers.
C15_NonNumberOperandsRejected ==
    (program.kind = "binary" /\ program.op \in NumericOps \cup {"NEG"} /\ pc = "done") =>
        IF \E i \in DOMAIN OperandValues : OperandValues[i].t # "num"
        THEN /\ has_errors
             /\ error.exc = "Interpreter.RuntimeError"
             /\ error.msg = IF program.op = "NEG" THEN "Operand must be a number"
                            ELSE "Operands must be numbers"
             /\ interp.out = <<>>
        ELSE error.msg \notin TypeErrors

\* str(x) as the spec has it: a string as it is, a number in decimal digits.
StringForm(val) == IF val.t = "str" THEN val.v ELSE ToString(val.v)

\* C16: `+` (and `+=`, `++`) yields the numeric sum of two numbers and, when either
\* operand is a string and both are strings or numbers, the concatenation of their
\* string forms; every other combination of operands (any nil, boolean or
\* callable) raises a runtime error.
C16_PlusSumsOrConcatenates ==
    (program.kind = "binary" /\ program.op \in PlusOps /\ pc = "done") =>
        IF LeftValue.t = "num" /\ RightValue.t = "num"
        THEN /\ ~has_errors
             /\ interp.out = << ToString(LeftValue.v + RightValue.v) >>
        ELSE IF {LeftValue.t, RightValue.t} \subseteq {"str", "num"}
        THEN /\ ~has_errors
             /\ interp.out = << StringForm(LeftValue) \o StringForm(RightValue) >>
        ELSE /\ has_errors
             /\ error.exc = "Interpreter.RuntimeError"
             /\ interp.out = <<>>

\* q is the floor of l / r: the quotient rounded toward minus infinity.
IsFloor(q, l, r) ==
    IF r > 0 THEN q * r <= l /\ l < q * r + r
    ELSE q * r >= l /\ l > q * r + r

\* C17: l / r (and l /= r) on integers raises 'Divide by zero' exactly when r is 0,
\* and otherwise yields the quotient rounded toward minus infinity, for negative
\* operands as well: (l / r) * r <= l < (l / r) * r + r when r > 0.
C17_DivisionFloors ==
    (program.kind = "div" /\ pc = "done") =>
        IF program.b = 0
        THEN /\ has_errors
             /\ error.msg = "Divide by zero"
             /\ interp.out = <<>>
        ELSE /\ ~has_errors
             /\ \E q \in -(MaxInt + 1)..(MaxInt + 1) :
                   /\ interp.out = << ToString(q) >>
                   /\ IsFloor(q, program.a, program.b)
             /\ program.op = "SLASH_EQUAL" =>
                   IsFloor(interp.heap[1].values["x"].v, program.a, program.b)

\* -3 / 2 was printed as -2.
C17_Witness ==
    /\ program.kind = "div" /\ program.op = "SLASH"
    /\ program.a = -3 /\ program.b = 2
    /\ pc = "done" /\ ~has_errors
    /\ interp.out = <<"-2">>

\* ------------------------------------------------------------------ parser properties
\* The source that is parsed, and what it leads one to expect.
LoopDepth(ctx) == Cardinality({i \in DOMAIN ctx : ctx[i] \in {"while", "for"}})
CallDepth(ctx) == Cardinality({i \in DOMAIN ctx : ctx[i] = "fun"})

\* A break or continue outside every loop, a return outside every function.
Offending(name, ctx) ==
    \/ name \in {"break", "continue"} /\ LoopDepth(ctx) = 0
    \/ name \in {"return", "return1"} /\ CallDepth(ctx) = 0

JumpMessage(name) ==
    CASE name = "break" -> "Must be inside a loop to use 'break'."
      [] name = "continue" -> "Must be inside a loop to use 'continue'."
      [] OTHER -> "Must be inside a callable to use 'return'."

\* The number of tokens before declaration i of the source.
ChunkOffset(src, i) ==
    Len(Flatten([j \in DOMAIN src.ctx |-> Opening(src.ctx[j])]))
    + Len(Flatten([j \in 1..(i - 1) |-> ChunkTokens(src.chunks[j], src.op)]))

\* The tree of a well-formed declaration whose first token is at offset + 1.
ChunkTree(name, offset) ==
    CASE name = "break" -> Break
      [] name = "continue" -> Continue
      [] name = "return" -> Return(None)
      [] name = "return1" -> Return(Literal(NumValue(1)))
      [] name = "print1" -> PrintStmt(Literal(NumValue(1)))
      [] name = "print2" -> PrintStmt(Literal(NumValue(2)))
      [] OTHER -> Var(Token("a", offset + 2), Literal(NumValue(3)))

\* The declarations of the source that are in order, by position, and their trees.
InOrder(src) ==
    LET Good(i) == /\ src.chunks[i] \in JumpChunks \cup WellFormedChunks
                   /\ ~Offending(src.chunks[i], src.ctx)
    IN SelectSeq([i \in DOMAIN src.chunks |-> i], Good)

ExpectedTrees(src) ==
    [k \in DOMAIN InOrder(src) |->
        ChunkTree(src.chunks[InOrder(src)[k]], ChunkOffset(src, InOrder(src)[k]))]

\* The statements inside the context, as found in the parser's result.
RECURSIVE InnerBody(_, _)
InnerBody(ctx, list) ==
    IF Len(ctx) = 0 THEN list
    ELSE InnerBody(Tail(ctx),
                   CASE Head(ctx) = "block" -> list[1].statements
                     [] Head(ctx) = "fun" -> list[1].body
                     [] OTHER -> list[1].body.statements)

IsStatement(t) == t.type # "None"

Messages == [i \in DOMAIN parser.printed |-> parser.printed[i].msg]

\* C18: the parser reports an error for a return outside every function body and
\* for a break or continue outside every loop, and the offending statement yields
\* no tree (`break;` alone parses to the empty list); the same statements inside a
\* function, respectively a loop, parse without error into their trees.  Stated for
\* the sources made of break, continue, return and well-formed declarations, in
\* each context: the diagnostics are those of the offending statements, in order,
\* and the statements that are kept are the trees of all the others.
C18_JumpOutsideItsConstruct ==
    (/\ pc = "parsed" /\ program.op = "-"
     /\ \A i \in DOMAIN program.chunks :
           program.chunks[i] \in JumpChunks \cup WellFormedChunks) =>
        LET bad == SelectSeq(program.chunks, LAMBDA n : Offending(n, program.ctx))
        IN /\ Messages = [i \in DOMAIN bad |-> JumpMessage(bad[i])]
           /\ \A i \in DOMAIN parser.printed :
                 parser.printed[i].token.type \in {"BREAK", "CONTINUE", "RETURN"}
           /\ parser.has_error = (Len(bad) > 0)
           /\ Len(program.ctx) = 0 => statements = ExpectedTrees(program)
           /\ Len(program.ctx) > 0 => Len(statements) = 1
           /\ SelectSeq(InnerBody(program.ctx, statements), IsStatement)
                 = ExpectedTrees(program)

\* `break;` alone was parsed: an error, and the empty list of statements.
C18_Witness ==
    /\ pc = "parsed"
    /\ program.ctx = <<>> /\ program.chunks = <<"break">>
    /\ parser.has_error
    /\ Messages = <<"Must be inside a loop to use 'break'.">>
    /\ statements = <<>>

\* The result for a context around the statements body, the first token of the
\* context at offset + 1.
RECURSIVE WrapIn(_, _, _)
WrapIn(ctx, body, offset) ==
    IF Len(ctx) = 0 THEN body
    ELSE LET inner == WrapIn(Tail(ctx), body, offset + Len(Opening(Head(ctx))))
         IN CASE Head(ctx) = "block" -> << Block(inner) >>
              [] Head(ctx) = "fun" -> << Function(Token("f", offset + 2), <<>>, inner) >>
              [] OTHER -> << While(Literal(BoolValue(TRUE)), Block(inner)) >>

\* C19: after a parse error the offending declaration is abandoned and adds
\* nothing to the result, neither a statement nor a placeholder, at top level as
\* inside a block or a function body; the parser synchronizes (it advances until
\* the previous token is `;` or the current one is among CLASS, FUN, VAR, FOR, IF,
\* WHILE, PRINT, RETURN), every well-formed declaration before and after the
\* offending one is in the result, and parsing reaches EOF.
C19_AbandonedDeclarationLeavesNothing ==
    /\ program.op = "-" => pc # "raised"
    /\ (pc = "parsed" /\ program.op = "-") =>
          /\ Parser_is_at_end(parser)
          /\ statements = WrapIn(program.ctx, ExpectedTrees(program), 0)
          /\ parser.has_error = (Len(InOrder(program)) < Len(program.chunks))

\* The binary operators the error productions of the grammar name.
ErrorProductionOperators ==
    {"BANG_EQUAL", "EQUAL_EQUAL", "GREATER", "GREATER_EQUAL", "LESS", "LESS_EQUAL",
     "PLUS", "SLASH", "STAR"}

\* C20: a binary operator (!=, ==, >, >=, <, <=, +, /, *) where an operand is
\* expected gets the diagnostic 'Missing left-hand operand.'; the sub-parser for
\* the operator's right-hand side then runs, so the operand is consumed and
\* dropped, and parsing goes on after the operand.  Stated for `print 1; <op> 1;
\* print 2;` in each context: one diagnostic, one operand dropped by the error
\* production, which starts right after the operator, and both print statements
\* in the result.
C20_ErrorProductionDropsOperand ==
    (pc = "parsed" /\ program.op \in ErrorProductionOperators) =>
        /\ Messages = <<"Missing left-hand operand.">>
        /\ parser.has_error
        /\ Len(parser.discarded) = 1
        /\ parser.discarded[1].operator.type = program.op
        /\ parser.discarded[1].from = ChunkOffset(program, 2) + 2
        /\ parser.discarded[1].to > parser.discarded[1].from
        /\ SelectSeq(InnerBody(program.ctx, statements), IsStatement)
              = << PrintStmt(Literal(NumValue(1))), PrintStmt(Literal(NumValue(2))) >>

\* The assignment a chain of the family should parse to, its first token at
\* offset + 1: a = (b = 1), a = (b = (c = 1)).
AssignChain(names, offset) ==
    LET RECURSIVE chain(_)
        chain(i) == IF i > Len(names) THEN Literal(NumValue(1))
                    ELSE Assign(Token(names[i], offset + 2 * i - 1), chain(i + 1))
    IN chain(1)

ChainTree(name, offset) ==
    CASE name = "chain" -> Expression(AssignChain(<<"a", "b">>, offset))
      [] name = "chain3" -> Expression(AssignChain(<<"a", "b", "c">>, offset))
      [] name = "initchain" -> Var(Token("c", offset + 2), AssignChain(<<"a", "b">>, offset + 3))
      [] OTHER -> Expression(Call(Variable(Token("f", offset + 1)),
                                  << AssignChain(<<"a", "b">>, offset + 2) >>))

\* C21: assignment is right-associative: `a = b = e` parses without error to
\* Assign(a, Assign(b, e)), and so do longer chains, as an expression statement,
\* as an initializer and as an argument.  Stated for a = b = 1; a = b = c = 1;
\* var c = a = b = 1; and f(a = b = 1); at top level and in a function body (what
\* evaluating the tree does is not reached when the tree is not built).
C21_AssignmentChainParses ==
    (/\ pc = "parsed" /\ program.op = "expr"
     /\ program.chunks[1] \in {"chain", "chain3", "initchain", "argchain"}) =>
        /\ ~parser.has_error
        /\ InnerBody(program.ctx, statements)
              = << ChainTree(program.chunks[1], ChunkOffset(program, 1)) >>

\* C22: `x += e`, `x -= e`, `x *= e`, `x /= e` parse as
\* Assign(x, Binary(Variable(x), op, e)) with e the whole right-hand expression and
\* op the compound token's type, and `x++`, `x--` as
\* Assign(x, Binary(Variable(x), op, Literal(1))), so that they evaluate as the base
\* form x = x + e, ..., x = x - 1.  Stated for the tree of `x <op> 2;` and of
\* `x <op> 1 + 2;`: the right operand of the Binary is the whole right-hand side.
C22_CompoundAssignmentDesugars ==
    (/\ pc = "parsed"
     /\ program.chunks \in {<<"compound">>, <<"compound_sum">>}) =>
        LET x == Token("x", ChunkOffset(program, 1) + 1)
            e == IF program.op \in StepTypes THEN Literal(NumValue(1))
                 ELSE IF program.chunks[1] = "compound" THEN Literal(NumValue(2))
                 ELSE Binary(Literal(NumValue(1)), "PLUS", Literal(NumValue(2)))
        IN /\ ~parser.has_error
           /\ InnerBody(program.ctx, statements)
                 = << Expression(Assign(x, Binary(Variable(x), program.op, e))) >>

\* The level of a binary operator in the grammar, lowest precedence first.
Level(op) ==
    CASE op = "OR" -> 1
      [] op = "AND" -> 2
      [] op \in {"BANG_EQUAL", "EQUAL_EQUAL"} -> 3
      [] op \in {"GREATER", "GREATER_EQUAL", "LESS", "LESS_EQUAL"} -> 4
      [] op \in {"MINUS", "PLUS"} -> 5
      [] OTHER -> 6

\* The node of a binary operator: Logical for `or` and `and`, Binary for the rest.
Node(left, op, right) ==
    IF op \in {"OR", "AND"} THEN Logical(left, op, right) ELSE Binary(left, op, right)

\* Operand i of the source: the number i, under the unary operator if it has one.
OperandTree(src, i) ==
    IF src.at = i THEN Unary(src.unary, Literal(NumValue(i))) ELSE Literal(NumValue(i))

\* C23: precedence increases in the order or, and, equality, comparison, additive,
\* multiplicative, unary, and every binary operator is left-associative.  Stated
\* for `a op1 b op2 c;` with every pair of binary operators, each operand the
\* number 1, 2, 3 or that number under `!` or `-`: it parses without error; when
\* op2 is of a higher level than op1 the tree is (a op1 (b op2 c)), otherwise, and
\* so for two operators of one level, it is ((a op1 b) op2 c); a unary operator
\* holds its operand alone.
C23_PrecedenceAndLeftAssociativity ==
    (pc = "parsed" /\ program.chunks = <<"operators">>) =>
        LET a == OperandTree(program, 1)
            b == OperandTree(program, 2)
            c == OperandTree(program, 3)
            op1 == program.ops[1]
            op2 == program.ops[2]
        IN /\ ~parser.has_error
           /\ statements =
                 << Expression(IF Level(op2) > Level(op1)
                               THEN Node(a, op1, Node(b, op2, c))
                               ELSE Node(Node(a, op1, b), op2, c)) >>

\* 1 - 2 + 3; was parsed to ((1 - 2) + 3), and 1 + 2 * 3; to (1 + (2 * 3)).
C23_Witness ==
    /\ pc = "parsed" /\ program.chunks = <<"operators">> /\ program.at = 0
    /\ \/ /\ program.ops = <<"MINUS", "PLUS">>
          /\ statements = << Expression(Binary(Binary(Literal(NumValue(1)), "MINUS",
                                                      Literal(NumValue(2))),
                                               "PLUS", Literal(NumValue(3)))) >>
       \/ /\ program.ops = <<"PLUS", "STAR">>
          /\ statements = << Expression(Binary(Literal(NumValue(1)), "PLUS",
                                               Binary(Literal(NumValue(2)), "STAR",
                                                      Literal(NumValue(3))))) >>

\* C24: a function declaration gets the error about too many parameters exactly
\* when it declares more than 255 parameters, a call the error about too many
\* arguments exactly when it passes more than 255 arguments; with 255 or fewer
\* they are accepted.  Stated for the declarations and the calls of ListCounts
\* elements.
C24_Limit255 ==
    (pc = "parsed" /\ program.op = "count") =>
        LET over == program.count > 255
            msg == IF program.chunks = <<"parameters">>
                   THEN "Can't have more than 255 parameters."
                   ELSE "Can't have more than 255 arguments."
        IN /\ parser.has_error = over
           /\ Messages = (IF over THEN <<msg>> ELSE <<>>)
           /\ over = (statements = <<>>)

\* Whether a text ends inside a string literal: read from i on, in code, in a
\* comment (from // to the end of the line) or in a string (from a quote to the
\* next one).
RECURSIVE EndsInString(_, _, _)
EndsInString(source, i, mode) ==
    IF i > Len(source) THEN mode = "string"
    ELSE CASE mode = "string" ->
                  EndsInString(source, i + 1, IF source[i] = "\"" THEN "code" ELSE "string")
           [] mode = "comment" ->
                  EndsInString(source, i + 1, IF source[i] = "\n" THEN "code" ELSE "comment")
           [] OTHER ->
                  IF source[i] = "\"" THEN EndsInString(source, i + 1, "string")
                  ELSE IF source[i] = "/" /\ i < Len(source) /\ source[i + 1] = "/"
                  THEN EndsInString(source, i + 2, "comment")
                  ELSE EndsInString(source, i + 1, "code")

\* C25: the lexer ends, every scanning step consuming a character; it aborts
\* with the fatal lexer error, and makes no token list, iff a string literal is
\* opened and not closed before the end of the text; otherwise, also after
\* unexpected characters were reported, it makes a token list with exactly one EOF
\* token, the last one, of column -1.  Stated for the end of a scan: it is left by
\* no exception but the lexer error, by that one exactly for the texts that end
\* inside a string, and the tokens of the others are as said.
C25_LexerOutcome ==
    (program.kind = "text" /\ pc \in {"scanned", "raised"}) =>
        /\ scanner.current <= Len(program.source)
        /\ pc = "raised" => scanner.exc = "ScannerError"
        /\ (pc = "raised") = EndsInString(program.source, 1, "code")
        /\ pc = "scanned" =>
              LET tokens == scanner.tokens
              IN /\ Len(tokens) >= 1
                 /\ tokens[Len(tokens)].type = "EOF"
                 /\ tokens[Len(tokens)].column = -1
                 /\ \A i \in 1..(Len(tokens) - 1) : tokens[i].type # "EOF"

\* The offset in a text of the first character of a line (lines count from 1):
\* that after the newline that ends the line before.
LineOffset(source, line) ==
    IF line = 1 THEN 0
    ELSE LET newlines == {i \in DOMAIN source : source[i] = "\n"}
             ends == {i \in newlines : Cardinality({j \in newlines : j <= i}) = line - 1}
         IN IF ends = {} THEN Len(source) + 1 ELSE CHOOSE i \in ends : TRUE

\* A lexeme is read in the text from an offset on.
ReadAt(source, offset, lexeme) ==
    \E n \in 1..Len(source) :
        /\ offset + n <= Len(source)
        /\ lexeme = Join(Slice(source, offset, offset + n))

\* C26: the lexeme of every token but EOF is the substring of the text that
\* starts at the token's column (from 0) on the token's line (from 1), also in
\* texts of several lines and for strings that span lines.
C26_LexemeAtLineAndColumn ==
    program.kind = "text" =>
        \A i \in DOMAIN scanner.tokens :
            LET token == scanner.tokens[i]
            IN token.type # "EOF" =>
                  ReadAt(program.source, LineOffset(program.source, token.line) + token.column,
                         token.lexeme)

\* The Variable and Assign nodes of an expression.
RECURSIVE NameNodes(_)
NameNodes(expr) ==
    CASE expr.type = "Variable" -> {expr}
      [] expr.type = "Assign" -> {expr} \cup NameNodes(expr.value)
      [] expr.type \in {"Binary", "Logical"} -> NameNodes(expr.left) \cup NameNodes(expr.right)
      [] expr.type = "Conditional" ->
             NameNodes(expr.expression) \cup NameNodes(expr.left) \cup NameNodes(expr.right)
      [] expr.type = "Grouping" -> NameNodes(expr.expression)
      [] expr.type = "Unary" -> NameNodes(expr.right)
      [] OTHER -> {}

\* C27: after the resolver has walked a program without error, a Variable or
\* Assign node is in the side table iff its name is declared in an enclosing local
\* scope where it is used, in every expression position, the test and the branches
\* of a `?:` conditional among them, and a node that refers to a global is never
\* in the table.  Stated for the expression printed by
\*   var g = 5; { var a = 1; print <expression>; }
\* where a is a local everywhere, and g is a global when the program stands at top
\* level and a local when it stands in a block or in a function body.
C27_SideTableHoldsTheLocals ==
    (program.kind = "cond" /\ pc # "start" /\ resolver.exc = "ok") =>
        \A node \in NameNodes(ConditionalExpressions[program.a]) :
            (NodeKey(node) \in DOMAIN interp.locals)
                = (node.name.lexeme = "a" \/ program.nest > 0 \/ program.infun)

\* The steps of the history at which a break or a continue executes.
Jumps == {i \in DOMAIN Trace : Trace[i].ev = "exec" /\ Trace[i].type \in {"Break", "Continue"}}

\* C28: a break or continue signal raised while a program runs is caught by a while
\* loop of the same function activation; it never passes out of a function call
\* into the caller, ending or continuing a loop of the caller, and never leaves
\* interpret uncaught: a break or continue in a function body declared in a loop
\* body affects no loop outside the function.  Stated on the history: every break
\* or continue executes with a loop of its own activation active, and the next
\* step is that loop's (its exit, its increment or its condition); no run ends with
\* one of the two signals leaving interpret.
C28_JumpCaughtInItsActivation ==
    /\ \A i \in Jumps :
          /\ Trace[i].loop > 0
          /\ i < Len(Trace)
          /\ Trace[i + 1].ev \in {"exit", "handler", "cond"}
          /\ Trace[i + 1].loop = Trace[i].loop
    /\ error.exc \notin {"BreakException", "ContinueException"}

\* What the programs of two operands with side effects print when the left
\* operand is evaluated, once, before the right one.
LeftThenRight ==
    << <<"l", "r", "-1">>, <<"2">>, <<"10">>, <<"2">>, <<"11">> >>

\* C29: the operands of a binary operator are evaluated in program order, the
\* left one completely, with its side effects, before the right one, and each
\* exactly once; so `x op e` and `x += e` use the value x has before e's side
\* effects.  Stated for the programs of two operands with side effects, run at
\* top level: they end without error and have printed what left-then-right
\* evaluation prints.
C29_LeftOperandFirst ==
    (program.kind = "operands" /\ TopLevel /\ pc \notin {"start", "run"}) =>
        /\ pc = "done"
        /\ ~has_errors
        /\ interp.out = LeftThenRight[program.a]

\* The compound assignments and steps whose operand is not a variable.
NotVariableChunks == {"compound_literal", "compound_group", "compound_call"}

\* C30: a compound assignment or step operator (+=, -=, *=, /=, ++, --) after an
\* operand that is not a Variable (a literal, a grouping, a call) raises a parser
\* error, sets has_error and is recovered from by synchronising, as `=` is with
\* 'Invalid assignment target.'; parse never stops with another kind of failure
\* and builds no Assign node whose target is not a variable name.  Stated for
\* 1 <op> 2;  (x) <op> 2;  f() <op> 2;  at top level and in a function body: parse
\* is left by no exception, and it returns with has_error set, one error reported
\* and no statement made of the source.
C30_CompoundOperatorOnNonVariable ==
    (program.kind = "source" /\ Len(program.chunks) = 1
     /\ program.chunks[1] \in NotVariableChunks) =>
        /\ pc # "raised"
        /\ pc = "parsed" =>
              /\ parser.has_error
              /\ Len(Messages) = 1
              /\ SelectSeq(InnerBody(program.ctx, statements), IsStatement) = <<>>

====
